---- MODULE Spec2Model ----
(***************************************************************************)
(* A model of the gud-cli core: the Context orchestrator (plugin           *)
(* initialisation, resolution, parsing, execution, error funnel), the      *)
(* State cursor that walks the command queue, and the HookRegistry.        *)
(*                                                                         *)
(* Context and HookRegistry are translated from                            *)
(*   packages/cli/src/core/context.ts and packages/cli/src/core/hooks.ts.  *)
(* The State class (src/core/state.ts) is not among the sources; its       *)
(* actions (the st_ and sc_ steps) follow section 4.6 of the specification.      *)
(***************************************************************************)
EXTENDS Integers, Sequences, FiniteSets, TLC

(***************************************************************************)
(* Bounds                                                                  *)
(***************************************************************************)
MaxOps == 2       \* top-level calls (preparePlugins / prepare / execute)
MaxInterventions == 1 \* times a hook handler uses a payload mutator or throws
MaxRegs == 2      \* handlers registered on one HookRegistry
MaxCalls == 2     \* HookRegistry.call invocations
MaxOffs == 1      \* HookRegistry.off invocations
MaxRegistryOps == 3 \* on, once, off and call invocations on one HookRegistry
MaxLen == 2       \* tokens in one list given to joinTokens or to run()
MaxTokens == 4    \* arguments of the command string given to the resolver

(***************************************************************************)
(* Inputs                                                                  *)
(***************************************************************************)
\* The `plugins` option of the constructor: two plugins, with different names
\* or with the same name.
PluginLists == { <<"p", "q">>, <<"p", "p">> }

\* Plugin.init is optional (plugin.ts:16); plugin "q" declares none.
HasInit(name) == name = "p"

\* commandString, as the list of its command tokens.
CommandStrings ==
  { <<>>, <<"nope">>, <<"dep">>, <<"foo">>, <<"dep", "foo">>, <<"foo", "nope">> }

\* The constructor arguments: every command string with plugins of different
\* names, and one command string with two plugins of the same name.
ConstructorArgs ==
  { <<ps, cs>> \in PluginLists \X CommandStrings :
      ps[1] = ps[2] => cs = <<"foo">> }

Keys == {"k1", "k2"}

\* The command modules the configured resolveFn can find.
\* "dep" declares requiresSubcommand; "nope" does not exist.
Modules ==
  [foo |-> [req |-> FALSE, opt |-> "k1"],
   dep |-> [req |-> TRUE, opt |-> "k2"]]

NoCmd == [name |-> "none", req |-> FALSE, opt |-> "none", remaining |-> <<>>]

DataValues == {"x", "a", "b", "z"}
InitialDatas == {"x"}

\* What a command handler does with its payload: the calls it makes, in order.
Scripts ==
  { <<>>,
    << [do |-> "next", d |-> "same"] >>,
    << [do |-> "next", d |-> "a"] >>,
    << [do |-> "end", d |-> "b"] >>,
    << [do |-> "next", d |-> "a"], [do |-> "next", d |-> "b"] >>,
    << [do |-> "throw", d |-> "same"] >>,
    << [do |-> "exit", d |-> "same"] >> }

\* The hooks and the handler functions of a HookRegistry taken on its own.
Hooks == {"beforeExecute", "afterExecute"}
Handlers == {"f", "g"}

VARIABLES
  \* HookRegistry: #handlers (hook -> array, 0 when undefined), the arrays
  \* it has created, and the calls of call() with their position
  regHandlers, regHeap, regFrames, regCount, regOffs, regOps, regLastOff,
  \* constructor arguments
  plugins, tokens,
  \* Context fields
  info, options, optionValues, queue, isReady, isResolved, isParsed, result,
  \* position of the running async method and its locals
  op, pc, err, thSite, pi, pending, skipped, initialData, locResult,
  \* State fields and the locals of State.start / next / end / applyChanges
  st, called, script, cur, chg, chgSkipped, chgRet,
  \* observation of the run
  prepFired, execFired, handlerLog, hcalls, initCalls, initReturns, scOpen,
  prepDone, reentry, budgetAtCall, nBeforeError, clean, outcome, lastCall, opsLeft, budget,
  \* the last Context.throw and the last Context.exit
  lastThrow, lastExit,
  \* run(): its position and what it gave back
  runPc, runOut,
  \* a function applied on its own: its argument, its position, its value
  fnIn, fnPc, fnOut

inputVars == <<plugins, tokens>>
ctxVars == <<info, options, optionValues, queue, isReady, isResolved, isParsed, result>>
ctlVars == <<op, pc, err, thSite, pi, pending, skipped, initialData, locResult>>
stVars == <<st, called, script, cur, chg, chgSkipped, chgRet>>
obsVars == <<prepFired, execFired, handlerLog, hcalls, initCalls, initReturns,
             scOpen, prepDone, reentry, budgetAtCall, nBeforeError, clean, outcome, lastCall, opsLeft, budget>>
auxVars == <<lastThrow, lastExit>>
runVars == <<runPc, runOut>>
fnVars == <<fnIn, fnPc, fnOut>>
coreVars == <<inputVars, ctxVars, ctlVars, stVars, obsVars, auxVars, runVars, fnVars>>
regVars == <<regHandlers, regHeap, regFrames, regCount, regOffs, regOps,
             regLastOff>>
vars == <<coreVars, regVars>>

(***************************************************************************)
(* Context constructor                                                     *)
(***************************************************************************)
PluginNamesOf(ps) == { ps[i] : i \in DOMAIN ps }

\* this.plugins = Object.freeze(Object.fromEntries(plugins.map(...))):
\* one info entry per NAME, each starting with isReady: false.
PluginInfoMap(ps) == [n \in PluginNamesOf(ps) |-> [isReady |-> FALSE]]

NoState == [index |-> 0, data |-> "x", command |-> NoCmd, status |-> "pending"]
\* A Partial<NextState>: a field that is not part of the change holds Absent.
AbsentCmd == [name |-> "_", req |-> FALSE, opt |-> "none", remaining |-> <<>>]
NoChange == [index |-> -1, data |-> "_", command |-> AbsentCmd, status |-> "_"]

\* No throw() / exit() has been called yet.
NoThrow == [given |-> "none", calls |-> <<>>, threw |-> "none"]
NoExit == [called |-> FALSE, code |-> 0, message |-> "none", calls |-> <<>>,
           logged |-> "none", via |-> "none", exited |-> FALSE, status |-> 0]

\* run() has not been called.
NoValue == [class |-> "none", message |-> "none"]
RunIdle == runPc = "none" /\ runOut = [kind |-> "none", value |-> NoValue]

\* No function is being applied on its own.
FnIdle == fnPc = "none" /\ fnIn = <<>> /\ fnOut = <<>>

\* new Context(options) before any call.
InitContext ==
  /\ \E args \in ConstructorArgs : plugins = args[1] /\ tokens = args[2]
  /\ info = PluginInfoMap(plugins)
  /\ options = [k \in Keys |-> "none"]
  /\ optionValues = {}
  /\ queue = <<>>
  /\ isReady = FALSE /\ isResolved = FALSE /\ isParsed = FALSE
  /\ result = "undefined"
  /\ op = "idle" /\ pc = "idle" /\ err = "none" /\ thSite = "none"
  /\ pi = 1 /\ pending = NoCmd /\ skipped = FALSE
  /\ initialData = "x" /\ locResult = "undefined"
  /\ st = NoState /\ called = "none" /\ script = <<>> /\ cur = 0
  /\ chg = NoChange /\ chgSkipped = FALSE /\ chgRet = "none"
  /\ prepFired = <<>> /\ execFired = <<>> /\ handlerLog = <<>> /\ hcalls = <<>>
  /\ initCalls = [i \in DOMAIN plugins |-> 0]
  /\ initReturns = [i \in DOMAIN plugins |-> 0]
  /\ scOpen = FALSE /\ prepDone = FALSE /\ reentry = FALSE
  /\ nBeforeError = 0 /\ clean = TRUE
  /\ outcome = "none" /\ lastCall = "none"
  /\ opsLeft = MaxOps /\ budget = MaxInterventions
  /\ budgetAtCall = MaxInterventions
  /\ lastThrow = NoThrow /\ lastExit = NoExit

\* The registry of the Context is left to its handlers' choices (see the hook
\* dispatch below); its own steps are the Registry actions.
RegistryIdle ==
  /\ regHandlers = [h \in Hooks |-> 0]
  /\ regHeap = <<>> /\ regFrames = <<>>
  /\ regCount = 0 /\ regOffs = 0 /\ regOps = 0
  /\ regLastOff = [hook |-> "none", fn |-> "none", before |-> 0, after |-> 0,
                   ret |-> FALSE]

Init == InitContext /\ RegistryIdle /\ RunIdle /\ FnIdle

(***************************************************************************)
(* Helpers                                                                 *)
(***************************************************************************)
\* A merge in which the keys already declared win.
SetOptions_KeepDeclared(opts, new) ==
  [k \in Keys |-> IF opts[k] # "none" THEN opts[k] ELSE new[k]]

\* Object.assign(this.#options, options): keys of the argument win.
SetOptions(opts, new) ==
  [k \in Keys |-> IF new[k] # "none" THEN new[k] ELSE opts[k]]

\* The options a plugin's init merges with setOptions (as the help plugin does).
InitOptions(name) == [k \in Keys |-> IF k = "k1" THEN name ELSE "none"]

\* command.options of a resolved command.
CmdOptions(c) == [k \in Keys |-> IF c.opt = k THEN c.name ELSE "none"]

\* The configured resolveFn applied to the remaining command string.
ResolveFn(rem) ==
  IF rem = <<>>
    THEN [ok |-> FALSE, error |-> "CommandRequiredError", cmd |-> NoCmd]
  ELSE IF Head(rem) \notin DOMAIN Modules
    THEN [ok |-> FALSE, error |-> "NotFoundError", cmd |-> NoCmd]
  ELSE [ok |-> TRUE, error |-> "none",
        cmd |-> [name |-> Head(rem), req |-> Modules[Head(rem)].req,
                 opt |-> Modules[Head(rem)].opt, remaining |-> Tail(rem)]]

\* A hook handler intervenes (payload mutator, throw) only while the budget lasts.
Cost(m) == IF m = "none" THEN 0 ELSE 1
Can(m) == Cost(m) <= budget

\* prepare() with the parse phase awaited before the resolve phase.
PrepareSequence_ParseFirst == <<"pp_loop", "ps_start", "rs_start">>

\* prepare(): await this.preparePlugins(); await this.#resolveWithHooks();
\* await this.#parseWithHooks(); each named by the place where it starts.
PrepareSequence == <<"pp_loop", "rs_start", "ps_start">>

\* Where prepare() goes on when the phase that starts at p has returned.
NextPhase(p) ==
  LET i == CHOOSE k \in DOMAIN PrepareSequence : PrepareSequence[k] = p
  IN IF i = Len(PrepareSequence) THEN "pr_ready" ELSE PrepareSequence[i + 1]

\* The async method that was called from outside returns or rejects.
Finish(out) == op' = "idle" /\ pc' = "idle" /\ outcome' = out

(***************************************************************************)
(* Calls from outside, accepted when no other call is running              *)
(***************************************************************************)
\* The locals of an earlier call do not outlive it: a call starts with its own.
FreshLocals ==
  /\ err' = "none" /\ thSite' = "none" /\ pi' = 1
  /\ pending' = NoCmd /\ skipped' = FALSE
  /\ called' = "none" /\ script' = <<>> /\ cur' = 0
  /\ chg' = NoChange /\ chgSkipped' = FALSE /\ chgRet' = "none"
  /\ execFired' = <<>> /\ handlerLog' = <<>> /\ hcalls' = <<>>
  /\ nBeforeError' = 0 /\ budgetAtCall' = budget
  /\ lastThrow' = NoThrow /\ lastExit' = NoExit

CallPreparePlugins ==
  /\ op = "idle" /\ opsLeft > 0
  /\ op' = "preparePlugins" /\ pc' = "pp_loop"
  /\ opsLeft' = opsLeft - 1 /\ lastCall' = "preparePlugins"
  /\ outcome' = "pending" /\ reentry' = FALSE
  /\ FreshLocals
  /\ st' = NoState /\ initialData' = "x" /\ locResult' = "undefined"
  /\ UNCHANGED <<fnVars, regVars, runVars, inputVars, ctxVars, prepFired, initCalls, initReturns, scOpen, prepDone,
                 clean, budget>>

\* prepare() without its guard on #isReady.
PrepareReturnsEarly_Never == FALSE

\* prepare(): if (this.#isReady) return;
PrepareReturnsEarly == isReady

PrepareCalled ==
  /\ op = "idle" /\ opsLeft > 0
  /\ opsLeft' = opsLeft - 1 /\ lastCall' = "prepare" /\ reentry' = prepDone
  /\ IF PrepareReturnsEarly
       THEN /\ outcome' = "returned"
            /\ UNCHANGED <<op, pc, prepFired>>
       ELSE /\ op' = "prepare" /\ pc' = PrepareSequence[1]
            /\ outcome' = "pending" /\ prepFired' = <<>>
  /\ FreshLocals
  /\ st' = NoState /\ initialData' = "x" /\ locResult' = "undefined"
  /\ UNCHANGED <<fnVars, regVars, inputVars, ctxVars, initCalls, initReturns, scOpen, prepDone, clean, budget>>

\* prepare() called on a Context the caller holds.
CallPrepare == PrepareCalled /\ UNCHANGED runVars

(***************************************************************************)
(* preparePlugins                                                          *)
(***************************************************************************)
\* preparePlugins() without its guard on info.isReady.
PluginIsSkipped_Never(name) == FALSE

\* if (!info || info.isReady) continue;
PluginIsSkipped(name) == info[name].isReady

PluginSkip ==
  /\ pc = "pp_loop" /\ pi <= Len(plugins)
  /\ PluginIsSkipped(plugins[pi])
  /\ pi' = pi + 1
  /\ UNCHANGED <<fnVars, regVars, runVars, auxVars, inputVars, ctxVars, stVars, op, pc, err, thSite, pending,
                 skipped, initialData, locResult, obsVars>>

\* await init?.(this); info.isReady = true; Object.freeze(info);
PluginInitReturns ==
  /\ pc = "pp_loop" /\ pi <= Len(plugins)
  /\ ~PluginIsSkipped(plugins[pi])
  /\ LET name == plugins[pi] IN
       /\ initCalls' = [initCalls EXCEPT ![pi] = IF HasInit(name) THEN @ + 1 ELSE @]
       /\ initReturns' = [initReturns EXCEPT ![pi] = IF HasInit(name) THEN @ + 1 ELSE @]
       /\ options' = IF HasInit(name) THEN SetOptions(options, InitOptions(name))
                                      ELSE options
       /\ info' = [info EXCEPT ![name].isReady = TRUE]
  /\ pi' = pi + 1
  /\ UNCHANGED <<fnVars, regVars, runVars, auxVars, inputVars, optionValues, queue, isReady, isResolved, isParsed,
                 result, stVars, op, pc, err, thSite, pending, skipped,
                 initialData, locResult, prepFired, execFired, handlerLog, hcalls,
                 scOpen, prepDone, reentry, budgetAtCall, nBeforeError, clean, outcome,
                 lastCall, opsLeft, budget>>

\* init throws or rejects: catch (error) { await this.throw(error); }
PluginInitThrows ==
  /\ pc = "pp_loop" /\ pi <= Len(plugins)
  /\ ~PluginIsSkipped(plugins[pi])
  /\ HasInit(plugins[pi])
  /\ initCalls' = [initCalls EXCEPT ![pi] = @ + 1]
  /\ err' = "InitError" /\ pc' = "th_beforeError" /\ thSite' = "pp_catch"
  /\ UNCHANGED <<fnVars, regVars, runVars, auxVars, inputVars, ctxVars, stVars, op, pi, pending, skipped,
                 initialData, locResult, prepFired, execFired, handlerLog, hcalls,
                 initReturns, scOpen, prepDone, reentry, budgetAtCall, nBeforeError, clean, outcome,
                 lastCall, opsLeft, budget>>

\* The loop is over: preparePlugins returns to its caller.
PluginsDone ==
  /\ pc = "pp_loop" /\ pi > Len(plugins)
  /\ IF op = "preparePlugins"
       THEN Finish("returned")
       ELSE pc' = NextPhase("pp_loop") /\ UNCHANGED <<op, outcome>>
  /\ UNCHANGED <<fnVars, regVars, runVars, auxVars, inputVars, ctxVars, stVars, err, thSite, pi, pending, skipped,
                 initialData, locResult, prepFired, execFired, handlerLog, hcalls,
                 initCalls, initReturns, budgetAtCall, scOpen, prepDone, reentry, nBeforeError, clean,
                 lastCall, opsLeft, budget>>

(***************************************************************************)
(* throw(error)                                                            *)
(***************************************************************************)
\* What the beforeError handlers do with the payload, as the calls they make
\* in order: nothing, replace the error twice, replace it and then ignore it.
ErrorScripts ==
  { <<>>,
    << [do |-> "setError", e |-> "FirstReplacement"],
       [do |-> "setError", e |-> "ReplacedError"] >>,
    << [do |-> "setError", e |-> "ReplacedError"], [do |-> "ignore", e |-> "none"] >> }

ScriptCost(calls) == IF calls = <<>> THEN 0 ELSE 1

\* throw() whose setError callback has no effect.
Replaced_KeepsOriginal(e, calls) == e

\* setError: (newError) => { error = newError } - each call overwrites `error`.
Replaced(e, calls) ==
  LET sets == SelectSeq(calls, LAMBDA c : c.do = "setError")
  IN IF sets = <<>> THEN e ELSE sets[Len(sets)].e

\* ignore: () => { ignore = true }
Ignored(calls) == \E i \in DOMAIN calls : calls[i].do = "ignore"

\* A beforeError handler called ignore(): throw() returns normally and the
\* caller goes on after its `await this.throw(...)`.
BeforeErrorIgnored ==
  /\ pc = "th_beforeError"
  /\ \E calls \in ErrorScripts :
       /\ Ignored(calls)
       /\ ScriptCost(calls) <= budget /\ budget' = budget - ScriptCost(calls)
       /\ lastThrow' = [given |-> err, calls |-> calls, threw |-> "nothing"]
  /\ nBeforeError' = nBeforeError + 1 /\ clean' = FALSE
  /\ err' = "none" /\ thSite' = "none"
  /\ CASE thSite = "pp_catch" ->
            /\ IF op = "preparePlugins"
                 THEN Finish("returned")
                 ELSE pc' = NextPhase("pp_loop") /\ UNCHANGED <<op, outcome>>
            /\ UNCHANGED <<isReady, isResolved, prepDone>>
       [] thSite = "rs_subcmd" ->
            /\ isResolved' = TRUE /\ pc' = NextPhase("rs_start")
            /\ UNCHANGED <<op, outcome, isReady, prepDone>>
       [] thSite = "pr_catch" ->
            /\ isReady' = TRUE /\ prepDone' = TRUE /\ Finish("returned")
            /\ UNCHANGED isResolved
       [] thSite = "ex_notready" ->
            /\ pc' = "st_start"
            /\ UNCHANGED <<op, outcome, isReady, isResolved, prepDone>>
       [] thSite = "ex_catch" ->
            /\ pc' = "ex_after"
            /\ UNCHANGED <<op, outcome, isReady, isResolved, prepDone>>
  /\ UNCHANGED <<fnVars, regVars, runVars, lastExit, inputVars, info, options, optionValues, queue, isParsed,
                 result, stVars, pi, pending, skipped, initialData, locResult,
                 prepFired, execFired, handlerLog, hcalls, initCalls, initReturns, budgetAtCall, scOpen, reentry,
                 lastCall, opsLeft>>

\* No handler called ignore(): throw() rethrows the (possibly replaced) error.
\* Inside prepare() the rejection is caught by prepare's own catch, which
\* calls throw() again.
BeforeErrorRethrown ==
  /\ pc = "th_beforeError"
  /\ \E calls \in ErrorScripts :
       /\ ~Ignored(calls)
       /\ ScriptCost(calls) <= budget /\ budget' = budget - ScriptCost(calls)
       /\ err' = Replaced(err, calls)
       /\ lastThrow' = [given |-> err, calls |-> calls, threw |-> err']
  /\ nBeforeError' = nBeforeError + 1 /\ clean' = FALSE
  /\ IF op = "prepare" /\ thSite \in {"pp_catch", "rs_subcmd"}
       THEN thSite' = "pr_catch" /\ UNCHANGED <<op, pc, outcome>>
       ELSE thSite' = "none" /\ Finish("threw")
  /\ UNCHANGED <<fnVars, regVars, runVars, lastExit, inputVars, ctxVars, stVars, pi, pending, skipped, initialData,
                 locResult, prepFired, execFired, handlerLog, hcalls, initCalls, initReturns, budgetAtCall,
                 scOpen, prepDone, reentry, lastCall, opsLeft>>

(***************************************************************************)
(* Hook dispatch as seen by the orchestrator: hooks.call(name, payload)    *)
(* runs the registered handlers; what they do with the payload's mutators  *)
(* is chosen in the calling action.                                        *)
(***************************************************************************)
Ev(h, i) == [h |-> h, i |-> i]

FirePrep(h) == prepFired' = Append(prepFired, Ev(h, -1))
FireExec(h, i) == execFired' = Append(execFired, Ev(h, i))

\* An exception inside prepare()'s try block: catch (error) { await this.throw(error) }
RaiseInPrepare(e) == err' = e /\ pc' = "th_beforeError" /\ thSite' = "pr_catch"

(***************************************************************************)
(* #resolveWithHooks                                                       *)
(***************************************************************************)
\* if (this.#isResolved) return;
ResolveAlreadyDone ==
  /\ pc = "rs_start" /\ isResolved
  /\ pc' = NextPhase("rs_start")
  /\ UNCHANGED <<fnVars, regVars, runVars, auxVars, inputVars, ctxVars, stVars, op, err, thSite, pi, pending,
                 skipped, initialData, locResult, obsVars>>

BeforeResolve ==
  /\ pc = "rs_start" /\ ~isResolved
  /\ FirePrep("beforeResolve")
  /\ \E m \in {"none", "skip"} :
       /\ Can(m) /\ budget' = budget - Cost(m)
       /\ skipped' = (m = "skip")
       /\ pc' = IF m = "skip" THEN "rs_loop" ELSE "rs_first"
  /\ pending' = NoCmd
  /\ UNCHANGED <<fnVars, regVars, runVars, auxVars, inputVars, ctxVars, stVars, op, err, thSite, pi, initialData,
                 locResult, execFired, handlerLog, hcalls, initCalls, initReturns, budgetAtCall, scOpen, prepDone,
                 reentry, nBeforeError, clean, outcome, lastCall, opsLeft>>

\* pendingCommand = await this.resolveCommand();
ResolveFirst ==
  /\ pc = "rs_first"
  /\ LET r == ResolveFn(tokens) IN
       IF r.ok THEN pending' = r.cmd /\ pc' = "rs_loop" /\ UNCHANGED <<err, thSite>>
               ELSE RaiseInPrepare(r.error) /\ UNCHANGED pending
  /\ UNCHANGED <<fnVars, regVars, runVars, auxVars, inputVars, ctxVars, stVars, op, pi, skipped, initialData,
                 locResult, obsVars>>

\* One turn of `while (pendingCommand)` up to the next await of resolveCommand.
ResolveLoop ==
  /\ pc = "rs_loop"
  /\ IF pending = NoCmd
       THEN /\ pc' = "rs_after"
            /\ UNCHANGED <<queue, options, skipped, prepFired, budget>>
       ELSE /\ queue' = Append(queue, pending)
            /\ options' = SetOptions(options, CmdOptions(pending))
            /\ IF pending.remaining = <<>>
                 THEN /\ pc' = "rs_after"
                      /\ UNCHANGED <<skipped, prepFired, budget>>
                 ELSE /\ FirePrep("beforeResolveNext")
                      /\ \E m \in {"none", "skip"} :
                           /\ Can(m) /\ budget' = budget - Cost(m)
                           /\ skipped' = (skipped \/ m = "skip")
                           /\ pc' = IF skipped \/ m = "skip" THEN "rs_after"
                                                             ELSE "rs_next"
  /\ UNCHANGED <<fnVars, regVars, runVars, auxVars, inputVars, info, optionValues, isReady, isResolved, isParsed,
                 result, stVars, op, err, thSite, pi, pending, initialData,
                 locResult, execFired, handlerLog, hcalls, initCalls, initReturns, budgetAtCall, scOpen, prepDone,
                 reentry, nBeforeError, clean, outcome, lastCall, opsLeft>>

\* pendingCommand = await this.resolveCommand(remainingCommandString, subcommandsDir);
ResolveNext ==
  /\ pc = "rs_next"
  /\ LET r == ResolveFn(pending.remaining) IN
       IF r.ok THEN pending' = r.cmd /\ pc' = "rs_loop" /\ UNCHANGED <<err, thSite>>
               ELSE RaiseInPrepare(r.error) /\ UNCHANGED pending
  /\ UNCHANGED <<fnVars, regVars, runVars, auxVars, inputVars, ctxVars, stVars, op, pi, skipped, initialData,
                 locResult, obsVars>>

\* A check on every queued command instead of the last one.
LastRequiresSubcommand_AnyCommand(q) == \E i \in DOMAIN q : q[i].req

\* lastCommand?.command.requiresSubcommand
LastRequiresSubcommand(q) == Len(q) > 0 /\ q[Len(q)].req

\* What an afterResolve handler passes to addResolvedCommands, if it calls it.
AddedCommand(name) ==
  [name |-> name, req |-> Modules[name].req, opt |-> Modules[name].opt,
   remaining |-> <<>>]
Additions == { <<>>, << AddedCommand("foo") >>, << AddedCommand("dep") >> }

\* enqueueCommand(resolvedCommands): push each and merge its options.
RECURSIVE EnqueuedOptions(_, _)
EnqueuedOptions(opts, cmds) ==
  IF cmds = <<>> THEN opts
  ELSE EnqueuedOptions(SetOptions(opts, CmdOptions(Head(cmds))), Tail(cmds))
EnqueuedQueue(q, cmds) == q \o cmds

\* afterResolve({ context, resolvedCommands, addResolvedCommands }), then the
\* check of the last queued command.
AfterResolve ==
  /\ pc = "rs_after"
  /\ FirePrep("afterResolve")
  /\ \E added \in Additions :
       /\ ScriptCost(added) <= budget /\ budget' = budget - ScriptCost(added)
       /\ queue' = EnqueuedQueue(queue, added)
       /\ options' = EnqueuedOptions(options, added)
  /\ IF LastRequiresSubcommand(queue')
       THEN /\ err' = "SubcommandRequiredError"
            /\ pc' = "th_beforeError" /\ thSite' = "rs_subcmd"
            /\ UNCHANGED isResolved
       ELSE /\ isResolved' = TRUE /\ pc' = NextPhase("rs_start")
            /\ UNCHANGED <<err, thSite>>
  /\ UNCHANGED <<fnVars, regVars, runVars, auxVars, inputVars, info, optionValues, isReady,
                 isParsed, result, stVars, op, pi, pending, skipped,
                 initialData, locResult, execFired, handlerLog, hcalls, initCalls, initReturns, budgetAtCall,
                 scOpen, prepDone, reentry, nBeforeError, clean, outcome, lastCall,
                 opsLeft>>

(***************************************************************************)
(* #parseWithHooks and the end of prepare()                                *)
(***************************************************************************)
DeclaredKeys(opts) == { k \in Keys : opts[k] # "none" }

\* What the configured parseFn returns for the command string: a value for
\* every declared option.
ParseFn(opts) == DeclaredKeys(opts)

\* if (this.#isParsed) return;
ParseAlreadyDone ==
  /\ pc = "ps_start" /\ isParsed
  /\ pc' = NextPhase("ps_start")
  /\ UNCHANGED <<fnVars, regVars, runVars, auxVars, inputVars, ctxVars, stVars, op, err, thSite, pi, pending,
                 skipped, initialData, locResult, obsVars>>

BeforeParse ==
  /\ pc = "ps_start" /\ ~isParsed
  /\ FirePrep("beforeParse")
  /\ \E m \in {"none", "skip", "setParsedOptionsAndSkip"} :
       /\ Can(m) /\ budget' = budget - Cost(m)
       /\ isParsed' = (m # "none")
       /\ optionValues' = IF m = "setParsedOptionsAndSkip"
                            THEN optionValues \cup {"k2"} ELSE optionValues
       /\ pc' = IF m = "none" THEN "ps_parse" ELSE "ps_after"
  /\ UNCHANGED <<fnVars, regVars, runVars, auxVars, inputVars, info, options, queue, isReady, isResolved, result,
                 stVars, op, err, thSite, pi, pending, skipped, initialData,
                 locResult, execFired, handlerLog, hcalls, initCalls, initReturns, budgetAtCall, scOpen, prepDone,
                 reentry, nBeforeError, clean, outcome, lastCall, opsLeft>>

\* const { options } = await this.parseCommand(); this.setOptionValues(options);
ParseReturns ==
  /\ pc = "ps_parse"
  /\ optionValues' = optionValues \cup ParseFn(options)
  /\ isParsed' = TRUE /\ pc' = "ps_after"
  /\ UNCHANGED <<fnVars, regVars, runVars, auxVars, inputVars, info, options, queue, isReady, isResolved, result,
                 stVars, op, err, thSite, pi, pending, skipped, initialData,
                 locResult, obsVars>>

\* parseFn or validateOptions throws a UsageError.
ParseThrows ==
  /\ pc = "ps_parse"
  /\ RaiseInPrepare("UsageError")
  /\ UNCHANGED <<fnVars, regVars, runVars, auxVars, inputVars, ctxVars, stVars, op, pi, pending, skipped,
                 initialData, locResult, obsVars>>

AfterParse ==
  /\ pc = "ps_after"
  /\ FirePrep("afterParse")
  /\ pc' = NextPhase("ps_start")
  /\ UNCHANGED <<fnVars, regVars, runVars, auxVars, inputVars, ctxVars, stVars, op, err, thSite, pi, pending,
                 skipped, initialData, locResult, execFired, handlerLog, hcalls,
                 initCalls, initReturns, budgetAtCall, scOpen, prepDone, reentry, nBeforeError, clean, outcome,
                 lastCall, opsLeft, budget>>

\* An afterParse handler throws: the rejection of hooks.call reaches
\* prepare()'s catch with #isParsed already set.
AfterParseThrows ==
  /\ pc = "ps_after" /\ Can("throw")
  /\ budget' = budget - 1
  /\ FirePrep("afterParse")
  /\ RaiseInPrepare("HookError")
  /\ UNCHANGED <<fnVars, regVars, runVars, auxVars, inputVars, ctxVars, stVars, op, pi, pending, skipped,
                 initialData, locResult, execFired, handlerLog, hcalls, initCalls, initReturns, budgetAtCall,
                 scOpen, prepDone, reentry, nBeforeError, clean, outcome, lastCall,
                 opsLeft>>

\* this.#isReady = true; and prepare() returns.
PrepareMarksReady ==
  /\ pc = "pr_ready"
  /\ isReady' = TRUE /\ prepDone' = TRUE /\ Finish("returned")
  /\ UNCHANGED <<fnVars, regVars, runVars, auxVars, inputVars, info, options, optionValues, queue, isResolved,
                 isParsed, result, stVars, err, thSite, pi, pending, skipped,
                 initialData, locResult, prepFired, execFired, handlerLog, hcalls,
                 initCalls, initReturns, budgetAtCall, scOpen, reentry, nBeforeError, clean, lastCall,
                 opsLeft, budget>>

(***************************************************************************)
(* execute(initialData)                                                    *)
(***************************************************************************)
\* new State({ context: this, initialData })
NewState(d) == [index |-> 0, data |-> d, command |-> NoCmd, status |-> "pending"]

ExecuteCalled ==
  /\ op = "idle" /\ opsLeft > 0
  /\ \E d \in InitialDatas :
       /\ st' = NewState(d) /\ initialData' = d /\ locResult' = d
  /\ op' = "execute" /\ pc' = "ex_before"
  /\ opsLeft' = opsLeft - 1 /\ lastCall' = "execute"
  /\ outcome' = "pending" /\ reentry' = FALSE
  /\ FreshLocals
  /\ UNCHANGED <<fnVars, regVars, inputVars, ctxVars, prepFired, initCalls, initReturns, scOpen, prepDone,
                 clean, budget>>

\* execute(initialData) called on a Context the caller holds.
CallExecute == ExecuteCalled /\ UNCHANGED runVars

BeforeExecute ==
  /\ pc = "ex_before"
  /\ FireExec("beforeExecute", -1)
  /\ \E m \in {"none", "skip", "setResultAndSkip", "setInitialData"} :
       /\ Can(m) /\ budget' = budget - Cost(m)
       /\ skipped' = (m \in {"skip", "setResultAndSkip"})
       /\ initialData' = IF m = "setInitialData" THEN "z" ELSE initialData
       /\ locResult' = IF m \in {"setResultAndSkip", "setInitialData"}
                         THEN "z" ELSE locResult
       /\ IF m \in {"skip", "setResultAndSkip"}
            THEN pc' = "ex_after" /\ UNCHANGED <<err, thSite>>
            ELSE IF ~isReady
              THEN /\ err' = "NotReadyError"
                   /\ pc' = "th_beforeError" /\ thSite' = "ex_notready"
              ELSE pc' = "st_start" /\ UNCHANGED <<err, thSite>>
  /\ UNCHANGED <<fnVars, regVars, runVars, auxVars, inputVars, ctxVars, stVars, op, pi, pending, prepFired,
                 handlerLog, hcalls, initCalls, initReturns, budgetAtCall, scOpen, prepDone, reentry,
                 nBeforeError, clean, outcome, lastCall, opsLeft>>

\* execute() keeping `let result = initialData` after start() has returned.
ResultOfStart_InitialData(s, d) == d

\* result = state.data; after `await state.start(initialData)`
ResultOfStart(s, d) == s.data

\* The payload of afterExecute: { result, state, setResult }.
AfterExecutePayload(res, s) == [result |-> res, state |-> s, setResult |-> "function"]

AfterExecute ==
  /\ pc = "ex_after"
  /\ FireExec("afterExecute", -1)
  /\ \E m \in {"none", "setResult"} :
       /\ Can(m) /\ budget' = budget - Cost(m)
       /\ locResult' = IF m = "setResult" THEN "z"
                        ELSE AfterExecutePayload(locResult, st).result
       /\ result' = locResult'
  /\ Finish("returned")
  /\ UNCHANGED <<fnVars, regVars, runVars, auxVars, inputVars, info, options, optionValues, queue, isReady,
                 isResolved, isParsed, stVars, err, thSite, pi, pending,
                 skipped, initialData, prepFired, handlerLog, hcalls, initCalls, initReturns, budgetAtCall,
                 scOpen, prepDone, reentry, nBeforeError, clean, lastCall, opsLeft>>

\* A beforeExecute handler throws: `await this.hooks.call('beforeExecute', ...)`
\* stands outside the try block of execute(), so execute() rejects with the
\* handler's error.
BeforeExecuteThrows ==
  /\ pc = "ex_before" /\ Can("throw")
  /\ budget' = budget - Cost("throw")
  /\ FireExec("beforeExecute", -1)
  /\ err' = "HookError" /\ Finish("threw")
  /\ UNCHANGED <<fnVars, regVars, runVars, auxVars, inputVars, ctxVars, stVars, thSite, pi, pending,
                 skipped, initialData, locResult, prepFired, handlerLog, hcalls,
                 initCalls, initReturns, budgetAtCall, scOpen, prepDone, reentry,
                 nBeforeError, clean, lastCall, opsLeft>>

\* An afterExecute handler throws: that call is outside the try block as well,
\* and `this.#result = result` is not reached.
AfterExecuteThrows ==
  /\ pc = "ex_after" /\ Can("throw")
  /\ budget' = budget - Cost("throw")
  /\ FireExec("afterExecute", -1)
  /\ err' = "HookError" /\ Finish("threw")
  /\ UNCHANGED <<fnVars, regVars, runVars, auxVars, inputVars, ctxVars, stVars, thSite, pi, pending,
                 skipped, initialData, locResult, prepFired, handlerLog, hcalls,
                 initCalls, initReturns, budgetAtCall, scOpen, prepDone, reentry,
                 nBeforeError, clean, lastCall, opsLeft>>

(***************************************************************************)
(* State: applyChanges(partial)                                            *)
(*   beforeStateChange({state, changes, setChanges, skip}) -> mutate ->    *)
(*   afterStateChange({state, changes, skipped})                           *)
(***************************************************************************)
Merge(s, c) ==
  [index |-> IF c.index # -1 THEN c.index ELSE s.index,
   data |-> IF c.data # "_" THEN c.data ELSE s.data,
   command |-> IF c.command # AbsentCmd THEN c.command ELSE s.command,
   status |-> IF c.status # "_" THEN c.status ELSE s.status]

\* applyChanges that mutates whether or not skip() was called.
Mutated_IgnoresSkip(s, c, skip) == Merge(s, c)

\* The state after the mutation step of applyChanges.
Mutated(s, c, skip) == IF skip THEN s ELSE Merge(s, c)

\* applyChanges(c) up to the return of the beforeStateChange handlers, which
\* may call skip(); the caller goes on at `ret` when applyChanges returns.
\* `spent` is what the calling step already took from the budget.
ApplyChanges(c, ret, spent) ==
  /\ chg' = c /\ chgRet' = ret /\ scOpen' = TRUE /\ pc' = "sc_mutate"
  /\ \E m \in {"none", "skip"} :
       /\ spent + Cost(m) <= budget
       /\ budget' = budget - spent - Cost(m)
       /\ chgSkipped' = (m = "skip")

StateMutate ==
  /\ pc = "sc_mutate"
  /\ st' = Mutated(st, chg, chgSkipped)
  /\ pc' = "sc_after"
  /\ UNCHANGED <<fnVars, regVars, runVars, auxVars, inputVars, ctxVars, op, err, thSite, pi, pending, skipped,
                 initialData, locResult, called, script, cur, chg, chgSkipped,
                 chgRet, obsVars>>

StateChangeAfter ==
  /\ pc = "sc_after"
  /\ scOpen' = FALSE
  /\ pc' = chgRet
  /\ UNCHANGED <<fnVars, regVars, runVars, auxVars, inputVars, ctxVars, op, err, thSite, pi, pending, skipped,
                 initialData, locResult, stVars, prepFired, execFired,
                 handlerLog, hcalls, initCalls, initReturns, budgetAtCall, prepDone, reentry, nBeforeError,
                 clean, outcome, lastCall, opsLeft, budget>>

(***************************************************************************)
(* State: start(initialData) and its loop                                  *)
(***************************************************************************)
StateStart ==
  /\ pc = "st_start"
  /\ ApplyChanges([NoChange EXCEPT !.data = initialData, !.index = 0,
                                   !.status = "running"], "st_loop", 0)
  /\ UNCHANGED <<fnVars, regVars, runVars, auxVars, inputVars, ctxVars, op, err, thSite, pi, pending, skipped,
                 initialData, locResult, st, called, script, cur, prepFired,
                 execFired, handlerLog, hcalls, initCalls, initReturns, budgetAtCall, prepDone, reentry,
                 nBeforeError, clean, outcome, lastCall, opsLeft>>

\* A loop that stops on the index alone.
LoopIsOver_IndexOnly(s, q) == s.index >= Len(q)

\* 1. If index >= queue.length or status==ended, finish.
LoopIsOver(s, q) == s.index >= Len(q) \/ s.status = "ended"

StateFinish ==
  /\ pc = "st_loop" /\ LoopIsOver(st, queue)
  /\ locResult' = ResultOfStart(st, initialData)
  /\ pc' = "ex_after"
  /\ UNCHANGED <<fnVars, regVars, runVars, auxVars, inputVars, ctxVars, stVars, op, err, thSite, pi, pending,
                 skipped, initialData, obsVars>>

\* 2. Set command = queue[index], params = command.params.
StateSelectCommand ==
  /\ pc = "st_loop" /\ ~LoopIsOver(st, queue)
  /\ ApplyChanges([NoChange EXCEPT !.command = queue[st.index + 1]],
                  "st_beforeCommand", 0)
  /\ UNCHANGED <<fnVars, regVars, runVars, auxVars, inputVars, ctxVars, op, err, thSite, pi, pending, skipped,
                 initialData, locResult, st, called, script, cur, prepFired,
                 execFired, handlerLog, hcalls, initCalls, initReturns, budgetAtCall, prepDone, reentry,
                 nBeforeError, clean, outcome, lastCall, opsLeft>>

\* 4. call('beforeCommand', {state, skip}). If skip(), increment index and loop.
BeforeCommandSkips ==
  /\ pc = "st_beforeCommand"
  /\ FireExec("beforeCommand", st.index)
  /\ cur' = st.index
  /\ ApplyChanges([NoChange EXCEPT !.index = st.index + 1], "st_loop", 1)
  /\ UNCHANGED <<fnVars, regVars, runVars, auxVars, inputVars, ctxVars, op, err, thSite, pi, pending, skipped,
                 initialData, locResult, st, called, script, prepFired,
                 handlerLog, hcalls, initCalls, initReturns, budgetAtCall, prepDone, reentry,
                 nBeforeError, clean, outcome, lastCall, opsLeft>>

\* 5. Invoke command.handler({... data, next, end}).
InvokeHandler ==
  /\ pc = "st_beforeCommand"
  /\ FireExec("beforeCommand", st.index)
  /\ cur' = st.index
  /\ \E s \in Scripts : script' = s
  /\ called' = "none"
  /\ handlerLog' = Append(handlerLog, [i |-> st.index, data |-> st.data])
  /\ pc' = "st_handler"
  /\ UNCHANGED <<fnVars, regVars, runVars, auxVars, inputVars, ctxVars, op, err, thSite, pi, pending, skipped,
                 initialData, locResult, st, chg, chgSkipped, chgRet,
                 prepFired, hcalls, initCalls, initReturns, budgetAtCall, scOpen, prepDone, reentry,
                 nBeforeError, clean, outcome, lastCall, opsLeft, budget>>

\* next() that acts on every call.
NextIsNoOp_Never(alreadyCalled) == FALSE

\* next(data?) may be called at most once per handler invocation; a second
\* call is a no-op.
NextIsNoOp(alreadyCalled) == alreadyCalled # "none"

\* The value a handler passes: `data` as it received it ("same") or a literal.
Supplied(s, d) == IF d = "same" THEN s.data ELSE d

\* next(data?): updates state.data (if supplied) and advances index by one.
NextChanges(s, d) ==
  [NoChange EXCEPT !.data = Supplied(s, d), !.index = s.index + 1]

\* Record of one next()/end() call made by the handler at queue position i.
HCall(i, do, d) == [i |-> i, do |-> do, d |-> d]

HandlerCallsNext ==
  /\ pc = "st_handler" /\ script # <<>> /\ Head(script).do = "next"
  /\ script' = Tail(script)
  /\ hcalls' = Append(hcalls, HCall(cur, "next", Supplied(st, Head(script).d)))
  /\ IF NextIsNoOp(called)
       THEN UNCHANGED <<pc, called, chg, chgSkipped, chgRet, scOpen, budget>>
       ELSE /\ called' = "next"
            /\ ApplyChanges(NextChanges(st, Head(script).d), "st_handler", 0)
  /\ UNCHANGED <<fnVars, regVars, runVars, auxVars, inputVars, ctxVars, op, err, thSite, pi, pending, skipped,
                 initialData, locResult, st, cur, prepFired, execFired,
                 handlerLog, initCalls, initReturns, budgetAtCall, prepDone, reentry, nBeforeError, clean,
                 outcome, lastCall, opsLeft>>

\* end(data?): updates data, fires beforeEnd, sets status=ended.
HandlerCallsEnd ==
  /\ pc = "st_handler" /\ script # <<>> /\ Head(script).do = "end"
  /\ script' = Tail(script)
  /\ called' = "end"
  /\ hcalls' = Append(hcalls, HCall(cur, "end", Head(script).d))
  /\ ApplyChanges([NoChange EXCEPT !.data = Head(script).d], "st_end", 0)
  /\ UNCHANGED <<fnVars, regVars, runVars, auxVars, inputVars, ctxVars, op, err, thSite, pi, pending, skipped,
                 initialData, locResult, st, cur, prepFired, execFired,
                 handlerLog, initCalls, initReturns, budgetAtCall, prepDone, reentry, nBeforeError, clean,
                 outcome, lastCall, opsLeft>>

BeforeEnd ==
  /\ pc = "st_end"
  /\ FireExec("beforeEnd", cur)
  /\ ApplyChanges([NoChange EXCEPT !.status = "ended"], "st_handler", 0)
  /\ UNCHANGED <<fnVars, regVars, runVars, auxVars, inputVars, ctxVars, op, err, thSite, pi, pending, skipped,
                 initialData, locResult, st, called, script, cur, prepFired,
                 handlerLog, hcalls, initCalls, initReturns, budgetAtCall, prepDone, reentry,
                 nBeforeError, clean, outcome, lastCall, opsLeft>>

\* The handler throws: start() rejects and execute's catch calls throw().
HandlerThrows ==
  /\ pc = "st_handler" /\ script # <<>> /\ Head(script).do = "throw"
  /\ script' = <<>>
  /\ err' = "HandlerError" /\ pc' = "th_beforeError" /\ thSite' = "ex_catch"
  /\ UNCHANGED <<fnVars, regVars, runVars, auxVars, inputVars, ctxVars, op, pi, pending, skipped, initialData,
                 locResult, st, called, cur, chg, chgSkipped, chgRet, obsVars>>

(***************************************************************************)
(* exit(code = 0, message?)                                                *)
(***************************************************************************)
\* The arguments a command handler gives to context.exit.
ExitArgs ==
  { [code |-> 0, message |-> "none"], [code |-> 0, message |-> "bye"],
    [code |-> 1, message |-> "bye"] }

\* What the beforeExit handlers do with the payload, as the calls they make.
ExitScripts ==
  { <<>>,
    << [do |-> "setCode", v |-> 3], [do |-> "setCode", v |-> 0],
       [do |-> "setMessage", v |-> "m1"], [do |-> "setMessage", v |-> "m2"] >>,
    << [do |-> "setCode", v |-> 0], [do |-> "setCode", v |-> 3] >>,
    << [do |-> "setMessage", v |-> "m1"], [do |-> "cancel", v |-> 0] >> }

\* exit() that ignores the values set by the beforeExit handlers.
LastSet_AsGiven(calls, do, given) == given

\* setCode: (newCode) => { code = newCode }, setMessage likewise: each call
\* overwrites the local.
LastSet(calls, do, given) ==
  LET sets == SelectSeq(calls, LAMBDA c : c.do = do)
  IN IF sets = <<>> THEN given ELSE sets[Len(sets)].v

\* cancel: () => { cancel = true }
Cancelled(calls) == \E i \in DOMAIN calls : calls[i].do = "cancel"

\* if (message) { if (code === 0) this.client.log(message);
\*                else this.client.error(message); }
LoggedVia(code, message) ==
  IF message = "none" THEN "none" ELSE IF code = 0 THEN "log" ELSE "error"

\* The handler calls `await context.exit(code, message)`: beforeExit runs;
\* unless cancelled the message is logged and process.exit(code) ends the
\* process, and nothing of the program runs after it.
HandlerCallsExit ==
  /\ pc = "st_handler" /\ script # <<>> /\ Head(script).do = "exit"
  /\ script' = Tail(script)
  /\ \E a \in ExitArgs, calls \in ExitScripts :
       LET code == LastSet(calls, "setCode", a.code)
           message == LastSet(calls, "setMessage", a.message)
       IN /\ ScriptCost(calls) <= budget /\ budget' = budget - ScriptCost(calls)
          /\ IF Cancelled(calls)
               THEN /\ lastExit' = [called |-> TRUE, code |-> a.code,
                                    message |-> a.message, calls |-> calls,
                                    logged |-> "none", via |-> "none",
                                    exited |-> FALSE, status |-> 0]
                    /\ UNCHANGED <<op, pc>>
               ELSE /\ lastExit' = [called |-> TRUE, code |-> a.code,
                                    message |-> a.message, calls |-> calls,
                                    logged |-> IF LoggedVia(code, message) = "none"
                                                 THEN "none" ELSE message,
                                    via |-> LoggedVia(code, message),
                                    exited |-> TRUE, status |-> code]
                    /\ op' = "exited" /\ pc' = "exited"
  /\ UNCHANGED <<fnVars, regVars, runVars, lastThrow, inputVars, ctxVars, err, thSite, pi, pending,
                 skipped, initialData, locResult, st, called, cur, chg, chgSkipped,
                 chgRet, prepFired, execFired, handlerLog, hcalls, initCalls,
                 initReturns, scOpen, prepDone, reentry, budgetAtCall, nBeforeError,
                 clean, outcome, lastCall, opsLeft>>

\* An auto-advance that passes no data on.
AutoNextChanges_DropsData(s) ==
  [NoChange EXCEPT !.index = s.index + 1, !.data = "undefined"]

\* 6. ... if neither, auto-advance with `data` unchanged.
AutoNextChanges(s) == [NoChange EXCEPT !.index = s.index + 1]

\* 6. After handler returns: if neither next nor end was called, auto-advance
\*    with data unchanged.
HandlerReturns ==
  /\ pc = "st_handler" /\ script = <<>>
  /\ IF called = "none"
       THEN ApplyChanges(AutoNextChanges(st), "st_afterCommand", 0)
       ELSE /\ pc' = "st_afterCommand"
            /\ UNCHANGED <<chg, chgSkipped, chgRet, scOpen, budget>>
  /\ UNCHANGED <<fnVars, regVars, runVars, auxVars, inputVars, ctxVars, op, err, thSite, pi, pending, skipped,
                 initialData, locResult, st, called, script, cur, prepFired,
                 execFired, handlerLog, hcalls, initCalls, initReturns, budgetAtCall, prepDone, reentry,
                 nBeforeError, clean, outcome, lastCall, opsLeft>>

\* 7. call('afterCommand', {state, skipped}); 8. loop.
AfterCommand ==
  /\ pc = "st_afterCommand"
  /\ FireExec("afterCommand", cur)
  /\ pc' = "st_loop"
  /\ UNCHANGED <<fnVars, regVars, runVars, auxVars, inputVars, ctxVars, op, err, thSite, pi, pending, skipped,
                 initialData, locResult, stVars, prepFired, handlerLog, hcalls,
                 initCalls, initReturns, budgetAtCall, scOpen, prepDone, reentry, nBeforeError, clean,
                 outcome, lastCall, opsLeft, budget>>

(***************************************************************************)
(* Specification of one Context                                            *)
(***************************************************************************)
Next ==
  \/ CallPreparePlugins \/ CallPrepare \/ CallExecute
  \/ PluginSkip \/ PluginInitReturns \/ PluginInitThrows \/ PluginsDone
  \/ BeforeErrorIgnored \/ BeforeErrorRethrown
  \/ ResolveAlreadyDone \/ BeforeResolve \/ ResolveFirst \/ ResolveLoop
  \/ ResolveNext \/ AfterResolve
  \/ ParseAlreadyDone \/ BeforeParse \/ ParseReturns \/ ParseThrows
  \/ AfterParse \/ AfterParseThrows \/ PrepareMarksReady
  \/ BeforeExecute \/ AfterExecute
  \/ StateMutate \/ StateChangeAfter
  \/ StateStart \/ StateFinish \/ StateSelectCommand
  \/ BeforeExecuteThrows \/ AfterExecuteThrows
  \/ BeforeCommandSkips \/ InvokeHandler
  \/ HandlerCallsNext \/ HandlerCallsEnd \/ BeforeEnd \/ HandlerThrows
  \/ HandlerCallsExit
  \/ HandlerReturns \/ AfterCommand

Spec == Init /\ [][Next]_vars

(***************************************************************************)
(* run(params): creates its own Context, prepares, executes and translates *)
(* what escapes.                                                           *)
(***************************************************************************)
\* The class of each value thrown in the model. The built-in errors are the
\* classes of section 7; a plugin's init throws a plain Error, a command
\* handler throws what client.error returned (a ClientError), a hook handler
\* throws a value that is no Error, and setError is given CliErrors.
ErrorClass(e) ==
  CASE e \in {"CommandRequiredError", "NotFoundError", "UsageError",
              "SubcommandRequiredError"} -> e
    [] e = "NotReadyError" -> "CliError"
    [] e \in {"ReplacedError", "FirstReplacement"} -> "CliError"
    [] e = "HandlerError" -> "ClientError"
    [] e = "InitError" -> "Error"
    [] OTHER -> "string"

\* class X extends Y
Extends ==
  [ClientError |-> "CliError", UsageError |-> "CliError",
   CommandRequiredError |-> "UsageError", NotFoundError |-> "CliError",
   SubcommandRequiredError |-> "UsageError", CliError |-> "Error"]

\* v instanceof c
RECURSIVE InstanceOf(_, _)
InstanceOf(cls, c) ==
  \/ cls = c
  \/ cls \in DOMAIN Extends /\ InstanceOf(Extends[cls], c)

Thrown(e) == [class |-> ErrorClass(e), message |-> e]

\* new CliError(error): a CliError carrying the message of what it wraps.
Wrapped(v) == [class |-> "CliError", message |-> v.message]

\* The catch block with the CliError test first.
Translate_CliErrorFirst(v) ==
  IF InstanceOf(v.class, "CliError") THEN [kind |-> "threw", value |-> v]
  ELSE IF InstanceOf(v.class, "ClientError")
    THEN [kind |-> "returned", value |-> v]
  ELSE [kind |-> "threw", value |-> Wrapped(v)]

\* if (error instanceof ClientError) return error;
\* if (error instanceof CliError) throw error;
\* throw new CliError(error);
Translate(v) ==
  IF InstanceOf(v.class, "ClientError") THEN [kind |-> "returned", value |-> v]
  ELSE IF InstanceOf(v.class, "CliError") THEN [kind |-> "threw", value |-> v]
  ELSE [kind |-> "threw", value |-> Wrapped(v)]

\* new Context({...}) in run(), before `await context.prepare()`.
InitRun ==
  /\ InitContext /\ RegistryIdle /\ FnIdle
  /\ runPc = "start" /\ runOut = [kind |-> "none", value |-> NoValue]

\* await context.prepare();
RunCallsPrepare ==
  /\ runPc = "start"
  /\ PrepareCalled
  /\ runPc' = "prepare" /\ UNCHANGED runOut

\* await context.execute(initialData);
RunCallsExecute ==
  /\ runPc = "prepare" /\ op = "idle" /\ outcome = "returned"
  /\ ExecuteCalled
  /\ runPc' = "execute" /\ UNCHANGED runOut

\* return context.result;
RunReturns ==
  /\ runPc = "execute" /\ op = "idle" /\ outcome = "returned"
  /\ runPc' = "done"
  /\ runOut' = [kind |-> "returned",
                value |-> [class |-> "result", message |-> result]]
  /\ UNCHANGED <<fnVars, regVars, inputVars, ctxVars, ctlVars, stVars, obsVars, auxVars>>

\* catch (error) { ... }
RunCatches ==
  /\ runPc \in {"prepare", "execute"} /\ op = "idle" /\ outcome = "threw"
  /\ runPc' = "done"
  /\ runOut' = Translate(Thrown(err))
  /\ UNCHANGED <<fnVars, regVars, inputVars, ctxVars, ctlVars, stVars, obsVars, auxVars>>

NextRun ==
  \/ RunCallsPrepare \/ RunCallsExecute \/ RunReturns \/ RunCatches
  \/ PluginSkip \/ PluginInitReturns \/ PluginInitThrows \/ PluginsDone
  \/ BeforeErrorIgnored \/ BeforeErrorRethrown
  \/ BeforeResolve \/ ResolveFirst \/ ResolveLoop
  \/ ResolveNext \/ AfterResolve
  \/ BeforeParse \/ ParseReturns \/ ParseThrows
  \/ AfterParse \/ AfterParseThrows \/ PrepareMarksReady
  \/ BeforeExecute \/ AfterExecute
  \/ BeforeExecuteThrows \/ AfterExecuteThrows
  \/ StateMutate \/ StateChangeAfter
  \/ StateStart \/ StateFinish \/ StateSelectCommand
  \/ BeforeCommandSkips \/ InvokeHandler
  \/ HandlerCallsNext \/ HandlerCallsEnd \/ BeforeEnd \/ HandlerThrows
  \/ HandlerCallsExit
  \/ HandlerReturns \/ AfterCommand

SpecRun == InitRun /\ [][NextRun]_vars

TypeOK ==
  /\ op \in {"idle", "preparePlugins", "prepare", "execute", "exited"}
  /\ budget \in 0..MaxInterventions /\ opsLeft \in 0..MaxOps
  /\ st.index \in 0..(Len(queue) + 1)

(***************************************************************************)
(* HookRegistry on its own: on, off and call, with calls that overlap      *)
(* because a handler is suspended while other code runs.                   *)
(***************************************************************************)
\* One registration made with on(): the function and the number of its
\* registration. Two registrations of one function hold the same function.
Entry(f, n) == [fn |-> f, reg |-> n, once |-> FALSE]

\* The registration made by once(hook, f): the closure `wrapped`, a function
\* of its own for every call of once, around the user's handler f.
OnceEntry(f, n) == [fn |-> f, reg |-> n, once |-> TRUE]

\* One call(hook, payload): the array it iterates, the index of the next
\* handler, the handlers started and not yet settled, the handler bodies
\* that run on without being awaited, and what the call has done.
Frame(h, a, snap, p) ==
  [hook |-> h, arr |-> a, idx |-> 1, inflight |-> {}, payload |-> p,
   snap |-> snap, log |-> <<>>, done |-> FALSE, rejected |-> FALSE,
   detached |-> {}]

\* constructor(initialHandlers): each given handler wrapped in an array.
InitialHandlers == [Hooks -> {"none"} \cup Handlers]

RegistryOf(initial) ==
  LET given(h) == initial[h] # "none"
      b == "beforeExecute"
      a == "afterExecute"
      nb == IF given(b) THEN 1 ELSE 0
      na == IF given(a) THEN 1 ELSE 0
  IN [handlers |-> [h \in Hooks |->
                      IF ~given(h) THEN 0 ELSE IF h = b THEN 1 ELSE nb + 1],
      heap |-> (IF given(b) THEN << << Entry(initial[b], 1) >> >> ELSE <<>>)
               \o (IF given(a) THEN << << Entry(initial[a], nb + 1) >> >>
                                ELSE <<>>),
      count |-> nb + na]

NoOff == [hook |-> "none", fn |-> "none", before |-> 0, after |-> 0, ret |-> FALSE]

InitRegistry ==
  /\ InitContext /\ RunIdle /\ FnIdle
  /\ plugins = << "p", "q" >> /\ tokens = <<>>
  /\ \E initial \in InitialHandlers :
       LET r == RegistryOf(initial) IN
         /\ regHandlers = r.handlers /\ regHeap = r.heap /\ regCount = r.count
  /\ regFrames = <<>> /\ regOffs = 0 /\ regOps = 0 /\ regLastOff = NoOff

\* this.#handlers[hook] ||= []; this.#handlers[hook].push(handler);
Push(h, e) ==
  IF regHandlers[h] = 0
    THEN /\ regHeap' = Append(regHeap, << e >>)
         /\ regHandlers' = [regHandlers EXCEPT ![h] = Len(regHeap) + 1]
    ELSE /\ regHeap' = [regHeap EXCEPT ![regHandlers[h]] = Append(@, e)]
         /\ UNCHANGED regHandlers

\* on(hook, handler)
RegistryOn ==
  /\ regOps < MaxRegistryOps /\ regOps' = regOps + 1
  /\ regCount < MaxRegs
  /\ \E h \in Hooks, f \in Handlers : Push(h, Entry(f, regCount + 1))
  /\ regCount' = regCount + 1
  /\ UNCHANGED <<coreVars, regFrames, regOffs, regLastOff>>

\* once(hook, handler): this.on(hook, wrapped)
RegistryOnce ==
  /\ regOps < MaxRegistryOps /\ regOps' = regOps + 1
  /\ regCount < MaxRegs
  /\ \E h \in Hooks, f \in Handlers : Push(h, OnceEntry(f, regCount + 1))
  /\ regCount' = regCount + 1
  /\ UNCHANGED <<coreVars, regFrames, regOffs, regLastOff>>

\* A function value given to off(): the user's function f itself (reg 0), or
\* the `wrapped` closure made by the once() registration number reg.
UserFn(f) == [fn |-> f, reg |-> 0]
WrappedFn(e) == [fn |-> e.fn, reg |-> e.reg]

\* existing === handler. A `wrapped` closure of once() is no function the
\* user holds, and is identical only to itself.
IsHandler(e, t) ==
  IF t.reg = 0 THEN e.fn = t.fn /\ ~e.once ELSE e.once /\ e.reg = t.reg

\* handlers.filter((existing) => existing !== handler)
Filtered(arr, t) == SelectSeq(arr, LAMBDA e : ~IsHandler(e, t))

\* off(hook, handler): if (!handlers) return didRemove; the filtered copy
\* replaces this.#handlers[hook]; return didRemove. regLastOff keeps how many
\* registrations of the handler the hook held before and holds after.
Off(h, t) ==
  IF regHandlers[h] = 0
    THEN /\ UNCHANGED <<regHeap, regHandlers>>
         /\ regLastOff' = [hook |-> h, fn |-> t.fn, before |-> 0, after |-> 0,
                           ret |-> FALSE]
    ELSE LET old == regHeap[regHandlers[h]]
             new == Filtered(old, t)
         IN /\ regHeap' = Append(regHeap, new)
            /\ regHandlers' = [regHandlers EXCEPT ![h] = Len(regHeap) + 1]
            /\ regLastOff' = [hook |-> h, fn |-> t.fn,
                              before |-> Len(SelectSeq(old, LAMBDA e : IsHandler(e, t))),
                              after |-> Len(SelectSeq(new, LAMBDA e : IsHandler(e, t))),
                              ret |-> \E i \in DOMAIN old : IsHandler(old[i], t)]

RegistryOff ==
  /\ regOps < MaxRegistryOps /\ regOps' = regOps + 1
  /\ regOffs < MaxOffs
  /\ \E h \in Hooks, f \in Handlers :
       Off(h, UserFn(f))
  /\ regOffs' = regOffs + 1
  /\ UNCHANGED <<coreVars, regFrames, regCount>>

\* The arguments of the c-th call: every call passes a payload of its own.
PayloadOf(c) == [call |-> c]

\* handler(...args) is called by the loop of a call: the frame of the call
\* once handlers[idx] = e has been invoked and its promise is awaited.
Started(fr, e) ==
  [fr EXCEPT !.idx = @ + 1,
             !.inflight = @ \cup {e.reg},
             !.log = Append(@, [ev |-> "start", fn |-> e.fn,
                                reg |-> e.reg, arg |-> fr.payload])]

\* What invoking e does to the registry before its first await: `wrapped`
\* calls this.off(hook, wrapped) and then the user's handler.
Invoked(h, e) ==
  IF e.once THEN Off(h, WrappedFn(e))
            ELSE UNCHANGED <<regHandlers, regHeap, regLastOff>>

\* call(hook, ...args): const handlers = this.#handlers[hook];
\* if (!handlers) return; for (const handler of handlers) { await handler(...args); }
\* An async function runs up to its first await within the call: the first
\* handler is invoked before call() returns its promise.
RegistryCall ==
  /\ regOps < MaxRegistryOps /\ regOps' = regOps + 1
  /\ Len(regFrames) < MaxCalls
  /\ \E h \in Hooks :
       LET p == PayloadOf(Len(regFrames) + 1) IN
         IF regHandlers[h] = 0
           THEN /\ regFrames' = Append(regFrames,
                                       [Frame(h, 0, <<>>, p) EXCEPT !.done = TRUE])
                /\ UNCHANGED <<regHandlers, regHeap, regLastOff>>
           ELSE LET arr == regHeap[regHandlers[h]]
                    fr == Frame(h, regHandlers[h], arr, p)
                IN IF arr = <<>>
                     THEN /\ regFrames' = Append(regFrames, fr)
                          /\ UNCHANGED <<regHandlers, regHeap, regLastOff>>
                     ELSE /\ regFrames' = Append(regFrames, Started(fr, arr[1]))
                          /\ Invoked(h, arr[1])
  /\ UNCHANGED <<coreVars, regCount, regOffs>>

\* A call whose handler was started without waiting for the one before it.
CanStartNext_NoAwait(fr) == TRUE

\* for (const handler of handlers) { await handler(...args); }: the loop goes
\* on to the next handler when the promise of the last one has settled.
CanStartNext(fr) == fr.inflight = {}

\* The loop goes on after an await: the iterator of the array yields
\* handlers[idx] while idx is within the array as it is now.
RegistryHandlerStarts ==
  \E c \in DOMAIN regFrames :
    LET fr == regFrames[c] IN
      /\ ~fr.done /\ CanStartNext(fr)
      /\ fr.idx <= Len(regHeap[fr.arr])
      /\ LET e == regHeap[fr.arr][fr.idx] IN
           /\ regFrames' = [regFrames EXCEPT ![c] = Started(fr, e)]
           /\ Invoked(fr.hook, e)
      /\ UNCHANGED <<coreVars, regCount, regOffs, regOps>>

\* What `await handler(...args)` can come to. A handler registered with on()
\* returns its promise, which is fulfilled or rejected when its body is over.
\* `wrapped` returns nothing: it throws when the user's handler throws at
\* once, and otherwise the await is over while the body of an async handler
\* may still run ("detached").
Settlements(e) ==
  IF e.once THEN {"fulfilled", "detached", "rejected"}
            ELSE {"fulfilled", "rejected"}

\* The entry of the array of a call that holds registration r.
EntryOf(fr, r) ==
  LET arr == regHeap[fr.arr]
  IN arr[CHOOSE i \in DOMAIN arr : arr[i].reg = r]

\* The await of a handler is over: fulfilled, the loop goes on; rejected, the
\* await throws and the promise of call() rejects.
RegistryHandlerSettles ==
  \E c \in DOMAIN regFrames :
    LET fr == regFrames[c] IN
      /\ \E r \in fr.inflight :
           \E how \in Settlements(EntryOf(fr, r)) :
             regFrames' =
               [regFrames EXCEPT ![c] =
                  [fr EXCEPT !.inflight = @ \ {r},
                             !.done = (@ \/ how = "rejected"),
                             !.rejected = (@ \/ how = "rejected"),
                             !.detached = IF how = "detached" THEN @ \cup {r} ELSE @,
                             !.log = Append(@, [ev |-> IF how = "detached"
                                                         THEN "fulfilled" ELSE how,
                                                fn |-> "-",
                                                reg |-> r, arg |-> fr.payload])]]
      /\ UNCHANGED <<coreVars, regHandlers, regHeap, regCount, regOffs, regOps, regLastOff>>

\* The body of an async handler that nothing awaits comes to its end.
RegistryBodyCompletes ==
  \E c \in DOMAIN regFrames :
    LET fr == regFrames[c] IN
      /\ \E r \in fr.detached :
           regFrames' = [regFrames EXCEPT ![c] = [fr EXCEPT !.detached = @ \ {r}]]
      /\ UNCHANGED <<coreVars, regHandlers, regHeap, regCount, regOffs, regOps, regLastOff>>

\* The loop is over: the promise of call() resolves.
RegistryCallReturns ==
  \E c \in DOMAIN regFrames :
    LET fr == regFrames[c] IN
      /\ ~fr.done /\ fr.inflight = {}
      /\ fr.idx > Len(regHeap[fr.arr])
      /\ regFrames' = [regFrames EXCEPT ![c] = [fr EXCEPT !.done = TRUE]]
      /\ UNCHANGED <<coreVars, regHandlers, regHeap, regCount, regOffs, regOps, regLastOff>>

NextRegistry ==
  \/ RegistryOn \/ RegistryOnce \/ RegistryOff \/ RegistryCall
  \/ RegistryHandlerStarts \/ RegistryHandlerSettles \/ RegistryBodyCompletes
  \/ RegistryCallReturns

SpecRegistry == InitRegistry /\ [][NextRegistry]_vars

(***************************************************************************)
(* utils/tokens.ts: joinTokens and splitTokens. A string is the sequence   *)
(* of its characters; a joinable token is a string or a list of joinable   *)
(* tokens.                                                                 *)
(***************************************************************************)
Str(s) == [list |-> FALSE, s |-> s, items |-> <<>>]
List(items) == [list |-> TRUE, s |-> <<>>, items |-> items]

Quote == "\""
Space == " "

\* Everything but the function under study stays as constructed.
progVars == <<inputVars, ctxVars, ctlVars, stVars, obsVars, auxVars, runVars, regVars>>
IdleProgram ==
  /\ InitContext /\ plugins = <<"p", "q">> /\ tokens = <<>>
  /\ RegistryIdle /\ RunIdle

\* strs.join(d)
RECURSIVE JoinStrings(_, _)
JoinStrings(strs, d) ==
  IF strs = <<>> THEN <<>>
  ELSE IF Len(strs) = 1 THEN strs[1]
  ELSE strs[1] \o d \o JoinStrings(Tail(strs), d)

\* str.split(d) for a one-character d: the pieces between the delimiters.
RECURSIVE SplitString(_, _)
SplitString(str, d) ==
  IF \A i \in DOMAIN str : str[i] # d THEN << str >>
  ELSE LET k == CHOOSE i \in DOMAIN str :
                  str[i] = d /\ \A j \in 1..(i - 1) : str[j] # d
       IN << SubSeq(str, 1, k - 1) >> \o SplitString(SubSeq(str, k + 1, Len(str)), d)

Includes(str, c) == \E i \in DOMAIN str : str[i] = c
StartsWith(str, c) == str # <<>> /\ str[1] = c
EndsWith(str, c) == str # <<>> /\ str[Len(str)] = c

\* token.replaceAll('"', '\\"') and token.replaceAll('"', '')
RECURSIVE EscapeQuotes(_)
EscapeQuotes(str) ==
  IF str = <<>> THEN <<>>
  ELSE (IF str[1] = Quote THEN << "\\", Quote >> ELSE << str[1] >>)
       \o EscapeQuotes(Tail(str))
StripQuotes(str) == SelectSeq(str, LAMBDA c : c # Quote)

\* joinTokens(...tokens) with the default options: a list is joined by the
\* nested call, a string with a space is wrapped in quotes when the call has
\* more than one token, and the pieces are joined with the delimiter.
RECURSIVE JoinTokens(_)
JoinTokens(ts) ==
  JoinStrings(
    [i \in DOMAIN ts |->
       IF ts[i].list THEN JoinTokens(ts[i].items)
       ELSE IF /\ Len(ts) > 1 /\ Includes(ts[i].s, Space)
               /\ (~StartsWith(ts[i].s, Quote) \/ ~EndsWith(ts[i].s, Quote))
         THEN << Quote >> \o EscapeQuotes(ts[i].s) \o << Quote >>
       ELSE ts[i].s],
    << Space >>)

\* The loop of splitTokens over commandString.split(delimiter).
RECURSIVE SplitLoop(_, _, _, _)
SplitLoop(parts, out, quoted, inQuotes) ==
  IF parts = <<>> THEN out
  ELSE LET token == Head(parts) IN
    IF inQuotes
      THEN IF EndsWith(token, Quote)
             THEN SplitLoop(Tail(parts),
                    Append(out, JoinStrings(
                      Append(quoted, SubSeq(token, 1, Len(token) - 1)), << Space >>)),
                    <<>>, FALSE)
             ELSE SplitLoop(Tail(parts), out, Append(quoted, token), TRUE)
    ELSE IF StartsWith(token, Quote) /\ ~EndsWith(token, Quote)
      THEN SplitLoop(Tail(parts), out, Append(quoted, Tail(token)), TRUE)
    ELSE SplitLoop(Tail(parts), Append(out, StripQuotes(token)), quoted, FALSE)

\* splitTokens(commandString): if (!commandString) return [];
SplitTokens(str) ==
  IF str = <<>> THEN <<>> ELSE SplitLoop(SplitString(str, Space), <<>>, <<>>, FALSE)

\* Space-free tokens, the lists of them, and lists with one level of nesting.
Words == { <<>>, << "a" >>, << "b" >> }
FlatLists == UNION { [1..n -> { Str(w) : w \in Words }] : n \in 0..MaxLen }
Joinables == { Str(w) : w \in Words } \cup { List(l) : l \in FlatLists }
TokenLists == UNION { [1..n -> Joinables] : n \in 0..MaxLen }

InitTokens ==
  /\ IdleProgram
  /\ fnPc = "input" /\ fnIn \in TokenLists /\ fnOut = <<>>

\* joinTokens(xs)
ApplyJoinTokens ==
  /\ fnPc = "input"
  /\ fnOut' = JoinTokens(<< List(fnIn) >>)
  /\ fnPc' = "joined"
  /\ UNCHANGED <<progVars, fnIn>>

\* splitTokens(joined)
ApplySplitTokens ==
  /\ fnPc = "joined"
  /\ fnOut' = SplitTokens(fnOut)
  /\ fnPc' = "split"
  /\ UNCHANGED <<progVars, fnIn>>

NextTokens == ApplyJoinTokens \/ ApplySplitTokens

SpecTokens == InitTokens /\ [][NextTokens]_vars

(***************************************************************************)
(* run(): the command string given to the Context                          *)
(***************************************************************************)
\* The `command` argument (a list of tokens, as hideBin(process.argv) gives)
\* and the `defaultCommand` argument: no element when it is undefined, else
\* the string or the list given.
CommandWords == { <<>>, << "a" >>, << "-", "f" >> }
Commands == UNION { [1..n -> { Str(w) : w \in CommandWords }] : n \in 0..MaxLen }
DefaultCommands ==
  { <<>>, << Str(<<>>) >>, << Str(<< "d" >>) >>, << List(<<>>) >>,
    << List(<< Str(<< "d" >>), Str(<< "e" >>) >>) >> }

\* A JavaScript value used as a condition: '' is falsy, any array is truthy.
Truthy(j) == j.list \/ j.s # <<>>

\* A test for the empty command string only.
IsInvalidCommand_EmptyOnly(cs) == cs = <<>>

\* const isInvalidCommand = !commandString || commandString.startsWith('-');
IsInvalidCommand(cs) == cs = <<>> \/ StartsWith(cs, "-")

\* let commandString = joinTokens(command);
\* if (isInvalidCommand && defaultCommand)
\*   commandString = joinTokens(defaultCommand, command);
CommandStringOf(command, dflt) ==
  LET cs == JoinTokens(<< List(command) >>)
  IN IF IsInvalidCommand(cs) /\ dflt # <<>> /\ Truthy(dflt[1])
       THEN JoinTokens(<< dflt[1], List(command) >>)
       ELSE cs

InitCommandString ==
  /\ IdleProgram
  /\ fnPc = "input" /\ fnOut = <<>>
  /\ fnIn \in [command : Commands, dflt : DefaultCommands]

RunJoinsCommand ==
  /\ fnPc = "input"
  /\ fnOut' = CommandStringOf(fnIn.command, fnIn.dflt)
  /\ fnPc' = "commandString"
  /\ UNCHANGED <<progVars, fnIn>>

SpecCommandString == InitCommandString /\ [][RunJoinsCommand]_vars

(***************************************************************************)
(* core/resolve: resolveCommand, resolveParamCommand and                   *)
(* prepareResolvedCommand over a commands directory. Command strings are   *)
(* character sequences; the arguments are f, b, x and the flag -h.         *)
(* parseFn, validateCommandString and the pass-through command are not     *)
(* among the sources and follow sections 4.2 and 4.3.                      *)
(***************************************************************************)
ArgWords == { << "f" >>, << "b" >>, << "x" >>, << "-", "h" >> }
Argvs == UNION { [1..n -> ArgWords] : n \in 0..MaxTokens }

Strs(ws) == [i \in DOMAIN ws |-> Str(ws[i])]

\* An entry of a commands directory: the file `name.ts` (file), the directory
\* `name/` (dir: 0 when there is none) or both, and what the module declares.
\* kind says whether the name is plain, [name] or [...name].
DirEntry(id, name, kind, file, dir, mw, opts) ==
  [id |-> id, name |-> name, kind |-> kind, file |-> file, dir |-> dir,
   mw |-> mw, opts |-> opts]

RootEntries ==
  { DirEntry("fMw", << "f" >>, "plain", TRUE, 2, TRUE, TRUE),
    DirEntry("fNoMw", << "f" >>, "plain", TRUE, 2, FALSE, FALSE),
    DirEntry("fDir", << "f" >>, "plain", FALSE, 2, TRUE, FALSE),
    DirEntry("fFile", << "f" >>, "plain", TRUE, 0, FALSE, FALSE),
    DirEntry("id", << "i" >>, "param", TRUE, 2, TRUE, FALSE),
    DirEntry("idDir", << "i" >>, "param", FALSE, 2, TRUE, FALSE),
    DirEntry("rest", << "r" >>, "spread", TRUE, 0, TRUE, FALSE),
    DirEntry("restOpts", << "r" >>, "spread", TRUE, 0, TRUE, TRUE),
    DirEntry("restDir", << "r" >>, "spread", FALSE, 2, TRUE, FALSE) }

\* The commands directory in readdir order: one or two entries of different
\* names. Directory 2 is the subcommands directory of every entry that has one.
RootDirs ==
  { << e >> : e \in RootEntries } \cup
  { p \in RootEntries \X RootEntries : p[1].name # p[2].name }
SubDir ==
  << DirEntry("b", << "b" >>, "plain", TRUE, 0, TRUE, FALSE),
     DirEntry("subRest", << "r" >>, "spread", TRUE, 0, TRUE, FALSE) >>

DirExists(d) == d \in {1, 2}
ReadDir(root, d) == IF d = 1 THEN root ELSE IF d = 2 THEN SubDir ELSE <<>>

ModuleIds == { e.id : e \in RootEntries } \cup { SubDir[i].id : i \in DOMAIN SubDir }

\* parseFn(commandString, optionsConfig).tokens: the arguments that are no
\* flags, in order. Every flag of the model is boolean and takes no value.
IsFlag(w) == StartsWith(w, "-")
ParsedTokens(str) == SelectSeq(SplitTokens(str), LAMBDA w : ~IsFlag(w))

\* str.indexOf(sub) counted from 1 (0 when sub does not occur, the -1 of
\* indexOf), str.slice(k).
IndexOf(str, sub) ==
  LET at(k) == k + Len(sub) - 1 <= Len(str) /\ SubSeq(str, k, k + Len(sub) - 1) = sub
  IN IF \E k \in 1..Len(str) : at(k)
       THEN CHOOSE k \in 1..Len(str) : at(k) /\ \A j \in 1..(k - 1) : ~at(j)
       ELSE 0
SliceFrom(str, k) ==
  IF k = 0 THEN SubSeq(str, Len(str), Len(str))   \* slice(-1): the last character
  ELSE SubSeq(str, k, Len(str))

NoResolved ==
  [id |-> "none", name |-> <<>>, tokens |-> <<>>, param |-> "none",
   params |-> <<>>, rem |-> <<>>, sub |-> 0, module |-> FALSE, mw |-> TRUE,
   handler |-> "none"]

\* A ResolvedCommand: module says whether `command` is the loaded module or
\* the pass-through command; handler is what command.handler holds.
Resolved(e, toks, param, params, rem, module, handlers) ==
  [id |-> e.id, name |-> e.name, tokens |-> toks, param |-> param,
   params |-> params, rem |-> rem, sub |-> e.dir, module |-> module,
   mw |-> IF module THEN e.mw ELSE TRUE,
   handler |-> IF module THEN handlers[e.id] ELSE "passThrough"]

Failure(error) == [ok |-> FALSE, error |-> error, res |-> NoResolved]
Success(r) == [ok |-> TRUE, error |-> "none", res |-> r]

\* The param search taking the last parameter entry of the directory.
FirstParamEntry_Last(entries) ==
  LET ps == { i \in DOMAIN entries : entries[i].kind # "plain" }
  IN IF ps = {} THEN 0 ELSE CHOOSE i \in ps : \A j \in ps : j <= i

\* for (const fileName of fileNames) { if (!paramName) continue; ...; break; }
FirstParamEntry(entries) ==
  LET ps == { i \in DOMAIN entries : entries[i].kind # "plain" }
  IN IF ps = {} THEN 0 ELSE CHOOSE i \in ps : \A j \in ps : i <= j

\* resolveParamCommand({ commandString, commandsDir, parseFn })
ResolveParamCommand(cs, entries, handlers) ==
  LET k == FirstParamEntry(entries)
      e == entries[k]
      split == SplitTokens(cs)
      spread == e.kind = "spread"
      rem == IF spread THEN <<>> ELSE JoinTokens(<< List(Strs(Tail(split))) >>)
      parsed == IF e.file /\ e.opts THEN ParsedTokens(cs) ELSE split
  IN IF k = 0 THEN Failure("undefined")
     ELSE IF e.file
       THEN Success(Resolved(e, IF spread THEN parsed ELSE << split[1] >>, e.kind,
                             IF spread THEN parsed ELSE << split[1] >>,
                             rem, TRUE, handlers))
       ELSE Success(Resolved(e, << split[1] >>, e.kind, << split[1] >>, rem,
                             FALSE, handlers))

\* prepareResolvedCommand({ resolved, parseFn }): the leading options are cut
\* from the remaining command string, and the handler of a command that is
\* no middleware and has a resolveNext is replaced.
PreparedRem(rem) ==
  IF rem = <<>> THEN rem
  ELSE IF ParsedTokens(rem) = <<>> THEN <<>>
  ELSE SliceFrom(rem, IndexOf(rem, ParsedTokens(rem)[1]))

\* A replacement that does not look at resolveNext.
ReplacesHandler_NotMiddleware(mw, rem) == ~mw

\* if (!isMiddleware && resolved.resolveNext)
ReplacesHandler(mw, rem) == ~mw /\ rem # <<>>

PrepareResolvedCommand(r) ==
  LET rem == PreparedRem(r.rem)
  IN [r EXCEPT !.rem = rem,
               !.handler = IF ReplacesHandler(r.mw, rem) THEN "passThrough" ELSE @]

\* resolveCommand({ commandString, commandsDir, parseFn })
ResolveCommand(cs, root, d, handlers) ==
  IF cs = <<>> THEN Failure("CommandRequiredError")
  ELSE
    LET split == SplitTokens(cs)
        name == split[1]
        rem == JoinTokens(<< List(Strs(Tail(split))) >>)
        entries == ReadDir(root, d)
        named == { i \in DOMAIN entries :
                     entries[i].kind = "plain" /\ entries[i].name = name }
        found ==
          IF \E i \in named : entries[i].file
            THEN LET e == entries[CHOOSE i \in named : entries[i].file]
                 IN Success(Resolved(e, << name >>, "none", <<>>, rem, TRUE, handlers))
          ELSE IF \E i \in named : entries[i].dir # 0
            THEN LET e == entries[CHOOSE i \in named : entries[i].dir # 0]
                 IN Success(Resolved(e, << name >>, "none", <<>>, rem, FALSE, handlers))
          ELSE ResolveParamCommand(cs, entries, handlers)
    IN IF IsFlag(name) THEN Failure("UsageError")
       ELSE IF ~DirExists(d) THEN Failure("NotFoundError")
       ELSE IF ~found.ok THEN Failure("NotFoundError")
       ELSE Success(PrepareResolvedCommand(found.res))

\* The state of a resolution: the queue, what is left to resolve and where,
\* and the handler each module object holds. `argv` is the command given.
Resolution(argv, round, handlers) ==
  [argv |-> argv, queue |-> <<>>, rem |-> JoinTokens(<< List(Strs(argv)) >>),
   dir |-> 1, error |-> "none", handlers |-> handlers, round |-> round]

InitResolve ==
  /\ IdleProgram
  /\ fnIn \in [root : RootDirs, argv : Argvs]
  /\ fnPc = "resolving"
  /\ fnOut = Resolution(fnIn.argv, 1, [m \in ModuleIds |-> "authored"])

\* One turn of the loop of #resolveWithHooks: resolveCommand on what is left,
\* the result pushed to the queue.
ResolveStep ==
  /\ fnPc = "resolving"
  /\ LET r == ResolveCommand(fnOut.rem, fnIn.root, fnOut.dir, fnOut.handlers) IN
       IF ~r.ok
         THEN /\ fnPc' = "failed"
              /\ fnOut' = [fnOut EXCEPT !.error = r.error]
         ELSE /\ fnPc' = IF r.res.rem = <<>> THEN "resolved" ELSE "resolving"
              /\ fnOut' = [fnOut EXCEPT
                   !.queue = Append(@, r.res),
                   !.rem = r.res.rem, !.dir = r.res.sub,
                   !.handlers = IF r.res.module
                                  THEN [@ EXCEPT ![r.res.id] = r.res.handler]
                                  ELSE @]
  /\ UNCHANGED <<progVars, fnIn>>

\* A later resolution in the same process (a second run(), a second Context)
\* of the same command without its last argument: import() returns the module
\* objects the first resolution used.
ResolveAgain ==
  /\ fnPc \in {"resolved", "failed"} /\ fnOut.round = 1
  /\ Len(fnIn.argv) > 1
  /\ fnOut' = Resolution(SubSeq(fnIn.argv, 1, Len(fnIn.argv) - 1), 2, fnOut.handlers)
  /\ fnPc' = "resolving"
  /\ UNCHANGED <<progVars, fnIn>>

NextResolve == ResolveStep \/ ResolveAgain

SpecResolve == InitResolve /\ [][NextResolve]_vars

(***************************************************************************)
(* prepareResolvedCommand on its own: the remaining command string of a    *)
(* step, over the arguments b, x and the flags -b, -h.                     *)
(***************************************************************************)
RemainingWords == { << "b" >>, << "x" >>, << "-", "b" >>, << "-", "h" >> }
RemainingArgvs == UNION { [1..n -> RemainingWords] : n \in 0..MaxTokens }

InitRemaining ==
  /\ IdleProgram
  /\ fnIn \in RemainingArgvs
  /\ fnPc = "resolved"
  /\ fnOut = JoinTokens(<< List(Strs(fnIn)) >>)

\* if (resolved.remainingCommandString.length) { ... slice(indexOfNextCommand) }
CutLeadingOptions ==
  /\ fnPc = "resolved"
  /\ fnOut' = PreparedRem(fnOut)
  /\ fnPc' = "prepared"
  /\ UNCHANGED <<progVars, fnIn>>

SpecRemaining == InitRemaining /\ [][CutLeadingOptions]_vars

(***************************************************************************)
(* The length of the remaining command string over the steps of the loop   *)
(* of #resolveWithHooks with the default resolver, in a commands directory *)
(* where every name finds a match with subcommands ([param] directories at *)
(* every level). The command string is typed as pieces between spaces,     *)
(* quoted spans included.                                                  *)
(***************************************************************************)
Pieces ==
  { << "b" >>, << "-", "h" >>, << Quote, "b" >>, << "c", Quote >>,
    << Quote, "b", Quote, Quote, Quote, "x" >> }
TypedStrings ==
  { JoinStrings(ps, << Space >>) :
      ps \in UNION { [1..n -> Pieces] : n \in 1..MaxTokens } }

\* const [commandName, ...remainingTokens] = splitTokens(commandString);
\* remainingCommandString = joinTokens(remainingTokens), then prepared.
StepRemaining(cs) ==
  PreparedRem(JoinTokens(<< List(Strs(Tail(SplitTokens(cs)))) >>))

InitShorten ==
  /\ IdleProgram
  /\ fnIn \in TypedStrings
  /\ fnPc = "resolving"
  /\ fnOut = [given |-> <<>>, rem |-> fnIn, steps |-> 0]

\* pendingCommand = await this.resolveCommand(remainingCommandString, ...):
\* the step throws on a command name that is a flag, and on a string of one
\* unclosed quoted span, where splitTokens gives no command name.
ShortenStep ==
  /\ fnPc = "resolving"
  /\ IF SplitTokens(fnOut.rem) = <<>> \/ IsFlag(SplitTokens(fnOut.rem)[1])
       THEN fnPc' = "failed" /\ fnOut' = fnOut
       ELSE LET rem == StepRemaining(fnOut.rem) IN
              /\ fnOut' = [given |-> fnOut.rem, rem |-> rem, steps |-> fnOut.steps + 1]
              /\ fnPc' = IF rem = <<>> THEN "resolved" ELSE "resolving"
  /\ UNCHANGED <<progVars, fnIn>>

SpecShorten == InitShorten /\ [][ShortenStep]_vars

(***************************************************************************)
(* #resolveWithHooks with a beforeResolve handler that passes commands to  *)
(* addResolvedCommands and may call skip(). The configured resolver finds  *)
(* the command "c" and nothing else. A command is its name and the tokens  *)
(* that remain after it.                                                   *)
(***************************************************************************)
GivenCommands ==
  [name : {"a", "b"}, remaining : { <<>>, << "c" >> }]
GivenLists ==
  { <<>> } \cup { << x >> : x \in GivenCommands } \cup
  { << x, y >> : x \in GivenCommands, y \in GivenCommands }
SeedInputs == { <<>>, << "c" >>, << "c", "c" >>, << "nope" >> }

NoPending == [name |-> "none", remaining |-> <<>>]

\* pendingCommand = resolvedCommands.pop()
PoppedCommand(given) == IF given = <<>> THEN NoPending ELSE given[Len(given)]

\* this.enqueueCommand(resolvedCommands), after the pop
EnqueuedAfterPop(given) ==
  IF PoppedCommand(given) = NoPending THEN given
  ELSE SubSeq(given, 1, Len(given) - 1)

\* The configured resolveFn on the tokens that remain.
SeedResolve(rem) ==
  IF rem = <<>> THEN [ok |-> FALSE, cmd |-> NoPending]
  ELSE IF Head(rem) # "c" THEN [ok |-> FALSE, cmd |-> NoPending]
  ELSE [ok |-> TRUE, cmd |-> [name |-> "c", remaining |-> Tail(rem)]]

InitSeed ==
  /\ IdleProgram
  /\ fnIn \in [given : GivenLists, skip : BOOLEAN, tokens : SeedInputs]
  /\ fnPc = "beforeResolve"
  /\ fnOut = [queue |-> <<>>, pending |-> NoPending, skipped |-> FALSE]

\* await this.hooks.call('beforeResolve', { ..., addResolvedCommands, skip })
SeedBeforeResolve ==
  /\ fnPc = "beforeResolve"
  /\ fnOut' = [queue |-> fnOut.queue \o EnqueuedAfterPop(fnIn.given),
               pending |-> PoppedCommand(fnIn.given),
               skipped |-> fnIn.skip]
  /\ fnPc' = IF fnIn.skip THEN "loop" ELSE "resolve"
  /\ UNCHANGED <<progVars, fnIn>>

\* if (!skipped) pendingCommand = await this.resolveCommand()
SeedResolveFirst ==
  /\ fnPc = "resolve"
  /\ LET r == SeedResolve(fnIn.tokens) IN
       IF r.ok THEN fnPc' = "loop" /\ fnOut' = [fnOut EXCEPT !.pending = r.cmd]
               ELSE fnPc' = "failed" /\ UNCHANGED fnOut
  /\ UNCHANGED <<progVars, fnIn>>

\* One turn of while (pendingCommand): push, break without a remaining
\* command string, else resolve the next one (no beforeResolveNext handler).
SeedLoop ==
  /\ fnPc = "loop"
  /\ IF fnOut.pending = NoPending
       THEN fnPc' = "resolved" /\ UNCHANGED fnOut
       ELSE LET q == Append(fnOut.queue, fnOut.pending)
                r == SeedResolve(fnOut.pending.remaining) IN
              IF fnOut.pending.remaining = <<>>
                THEN fnPc' = "resolved" /\ fnOut' = [fnOut EXCEPT !.queue = q]
              ELSE IF r.ok
                THEN fnPc' = "loop" /\ fnOut' = [fnOut EXCEPT !.queue = q, !.pending = r.cmd]
              ELSE fnPc' = "failed" /\ fnOut' = [fnOut EXCEPT !.queue = q]
  /\ UNCHANGED <<progVars, fnIn>>

NextSeed == SeedBeforeResolve \/ SeedResolveFirst \/ SeedLoop

SpecSeed == InitSeed /\ [][NextSeed]_vars

(***************************************************************************)
(* Context.parseCommand and the options getter over two option keys.       *)
(* validateOptions and the getter are not among the sources and follow     *)
(* section 4.2: a declaration may be required and may name the other key   *)
(* in conflicts or in requires; defaults are left out.                     *)
(***************************************************************************)
OptionKeys == { "env", "yes" }
OtherKey(k) == IF k = "env" THEN "yes" ELSE "env"
OptionDecls == [required : BOOLEAN, peer : {"none", "conflicts", "requires"}]

\* The validations parseCommand asks for, and the same with `required` added.
Validations_WithRequired == { "conflicts", "requires", "required" }

\* validations: { conflicts: true, requires: true }
Validations == { "conflicts", "requires" }

\* validateOptions({ values, config, validations }): the first check that fails.
ValidateOptions(values, config, validations) ==
  IF "conflicts" \in validations /\
     \E k \in values : config[k].peer = "conflicts" /\ OtherKey(k) \in values
    THEN "conflicts"
  ELSE IF "requires" \in validations /\
          \E k \in values : config[k].peer = "requires" /\ OtherKey(k) \notin values
    THEN "requires"
  ELSE IF "required" \in validations /\
          \E k \in OptionKeys : config[k].required /\ k \notin values
    THEN "required"
  ELSE "none"

\* fnIn: the options config and the keys the command string gives a value.
InitOptionsRead ==
  /\ IdleProgram
  /\ fnIn \in [config : [OptionKeys -> OptionDecls], given : SUBSET OptionKeys]
  /\ fnPc = "input"
  /\ fnOut = [values |-> {}, error |-> "none", read |-> {}, prompted |-> {}]

\* const { options } = await this.parseCommand(); this.setOptionValues(options)
ParseCommand ==
  /\ fnPc = "input"
  /\ LET error == ValidateOptions(fnIn.given, fnIn.config, Validations) IN
       IF error # "none"
         THEN fnPc' = "failed" /\ fnOut' = [fnOut EXCEPT !.error = error]
         ELSE fnPc' = "parsed" /\ fnOut' = [fnOut EXCEPT !.values = fnIn.given]
  /\ UNCHANGED <<progVars, fnIn>>

\* await options.key() in a handler, without a prompt option: the parsed value,
\* else a prompt when the declaration is required, else undefined.
ReadOption ==
  /\ fnPc = "parsed"
  /\ \E k \in OptionKeys \ fnOut.read :
       fnOut' = [fnOut EXCEPT
         !.read = @ \cup {k},
         !.prompted = IF k \notin fnOut.values /\ fnIn.config[k].required
                        THEN @ \cup {k} ELSE @,
         !.values = IF k \notin fnOut.values /\ fnIn.config[k].required
                      THEN @ \cup {k} ELSE @]
  /\ UNCHANGED <<progVars, fnIn, fnPc>>

NextOptionsRead == ParseCommand \/ ReadOption

SpecOptionsRead == InitOptionsRead /\ [][NextOptionsRead]_vars

(***************************************************************************)
(* The options config of a Context over one preparation: the constructor's *)
(* options, setOptions in each plugin's init in the order of the plugins,  *)
(* and enqueueCommand for each command in queue order. A declaration is    *)
(* named after its contributor; "none" is a key the contributor leaves     *)
(* out.                                                                    *)
(***************************************************************************)
Declared(who) == { [k \in Keys |-> IF k \in ks THEN who ELSE "none"] : ks \in SUBSET Keys }

PluginConfigs ==
  { <<>> } \cup { << a >> : a \in Declared("plugin1") } \cup
  { << a, b >> : a \in Declared("plugin1"), b \in Declared("plugin2") }
CommandConfigs ==
  { <<>> } \cup { << a >> : a \in Declared("command1") } \cup
  { << a, b >> : a \in Declared("command1"), b \in Declared("command2") }

InitOptionsMerge ==
  /\ IdleProgram
  /\ fnIn \in [ctor : Declared("constructor"), plugins : PluginConfigs,
               commands : CommandConfigs]
  /\ fnPc = "plugins"
  /\ fnOut = [options |-> fnIn.ctor, done |-> 0]

\* preparePlugins(): await init?.(this), the init calling setOptions.
PluginSetsOptions ==
  /\ fnPc = "plugins" /\ fnOut.done < Len(fnIn.plugins)
  /\ fnOut' = [options |-> SetOptions(fnOut.options, fnIn.plugins[fnOut.done + 1]),
               done |-> fnOut.done + 1]
  /\ UNCHANGED <<progVars, fnIn, fnPc>>

PluginsPrepared ==
  /\ fnPc = "plugins" /\ fnOut.done = Len(fnIn.plugins)
  /\ fnPc' = "commands"
  /\ fnOut' = [fnOut EXCEPT !.done = 0]
  /\ UNCHANGED <<progVars, fnIn>>

\* this.#commandQueue.push(pendingCommand);
\* if (pendingCommand.command.options) this.setOptions(pendingCommand.command.options)
CommandSetsOptions ==
  /\ fnPc = "commands" /\ fnOut.done < Len(fnIn.commands)
  /\ fnOut' = [options |-> SetOptions(fnOut.options, fnIn.commands[fnOut.done + 1]),
               done |-> fnOut.done + 1]
  /\ UNCHANGED <<progVars, fnIn, fnPc>>

CommandsResolved ==
  /\ fnPc = "commands" /\ fnOut.done = Len(fnIn.commands)
  /\ fnPc' = "prepared"
  /\ UNCHANGED <<progVars, fnIn, fnOut>>

NextOptionsMerge ==
  PluginSetsOptions \/ PluginsPrepared \/ CommandSetsOptions \/ CommandsResolved

SpecOptionsMerge == InitOptionsMerge /\ [][NextOptionsMerge]_vars

(***************************************************************************)
(* plugins/help: a Context whose plugins are the help plugin and one other *)
(* plugin, over prepare() and execute(). help.ts holds two definitions of  *)
(* the plugin; fnIn.definition says which one is installed. fnIn.raised    *)
(* names what is thrown where: by the resolve phase of prepare(), by the   *)
(* other plugin's beforeExecute and afterExecute handlers, and by the      *)
(* command handler.                                                        *)
(***************************************************************************)
PrepareErrors == { "none", "CommandRequiredError", "SubcommandRequiredError", "InitError" }
HandlerErrors == { "none", "UsageError", "HandlerError" }

IsUsageError(e) == e # "none" /\ InstanceOf(ErrorClass(e), "UsageError")

\* if (error instanceof UsageError) { usageError = error; ignore(); }
HelpIgnores(e) == IsUsageError(e)

\* if (usageError) { ... client.log(helpText) }
LogsHelpText(usageError, helpFlag) == usageError # "none"

ClientError(e) == [via |-> "error", what |-> e]
ClientLog(text) == [via |-> "log", what |-> text]

InitHelp ==
  /\ IdleProgram
  /\ fnIn \in [helpFlag : BOOLEAN, definition : {1, 2},
               raised : [prepare : PrepareErrors, beforeExecute : HandlerErrors,
                         handler : HandlerErrors, afterExecute : HandlerErrors]]
  /\ fnPc = "prepare"
  /\ fnOut = [usageError |-> "none", isParsed |-> FALSE, skipped |-> FALSE,
              handlerRan |-> FALSE, capturedBeforeStart |-> FALSE,
              log |-> <<>>, result |-> "undefined", threw |-> "none"]

\* await state.options[optionKey]?.(): the parsed value, else the default false.
HelpFlagValue == fnOut.isParsed /\ fnIn.helpFlag

\* prepare(): an error of the resolve phase reaches the catch of prepare() and
\* leaves the parse phase out; SubcommandRequiredError is handed to
\* this.throw() inside the resolve phase, which goes on when it is ignored.
HelpPrepare ==
  /\ fnPc = "prepare"
  /\ LET e == fnIn.raised.prepare IN
       IF e = "none"
         THEN fnPc' = "beforeExecute" /\ fnOut' = [fnOut EXCEPT !.isParsed = TRUE]
       ELSE IF HelpIgnores(e)
         THEN /\ fnPc' = "beforeExecute"
              /\ fnOut' = [fnOut EXCEPT !.usageError = e,
                                        !.capturedBeforeStart = TRUE,
                                        !.isParsed = (e = "SubcommandRequiredError")]
       ELSE fnPc' = "threw" /\ fnOut' = [fnOut EXCEPT !.threw = e]
  /\ UNCHANGED <<progVars, fnIn>>

\* execute(): await this.hooks.call('beforeExecute', ...), outside any try:
\* the help handler skips, the other plugin's handler may throw.
HelpBeforeExecute ==
  /\ fnPc = "beforeExecute"
  /\ LET e == fnIn.raised.beforeExecute
         skip == fnOut.usageError # "none" \/ HelpFlagValue IN
       IF e # "none"
         THEN fnPc' = "threw" /\ fnOut' = [fnOut EXCEPT !.skipped = skip, !.threw = e]
         ELSE /\ fnPc' = IF skip THEN "afterExecute" ELSE "start"
              /\ fnOut' = [fnOut EXCEPT !.skipped = skip]
  /\ UNCHANGED <<progVars, fnIn>>

\* try { await state.start(initialData); result = state.data }
\* catch (error) { await this.throw(error) }
HelpStart ==
  /\ fnPc = "start"
  /\ LET e == fnIn.raised.handler IN
       IF e = "none"
         THEN /\ fnPc' = "afterExecute"
              /\ fnOut' = [fnOut EXCEPT !.handlerRan = TRUE, !.result = "data"]
       ELSE IF HelpIgnores(e)
         THEN /\ fnPc' = "afterExecute"
              /\ fnOut' = [fnOut EXCEPT !.handlerRan = TRUE, !.usageError = e]
       ELSE fnPc' = "threw" /\ fnOut' = [fnOut EXCEPT !.handlerRan = TRUE, !.threw = e]
  /\ UNCHANGED <<progVars, fnIn>>

\* The afterExecute handler of the help plugin: what it logs, and the result
\* of execute() after it (setResult in the first definition, state.setData,
\* which execute() does not read, in the second).
HelpLogs ==
  (IF fnOut.usageError # "none" /\ ~HelpFlagValue
     THEN << ClientError(fnOut.usageError) >> ELSE <<>>) \o
  (IF LogsHelpText(fnOut.usageError, HelpFlagValue)
     THEN << ClientLog("helpText") >> ELSE <<>>)
HelpResult ==
  IF fnIn.definition = 1 /\ fnOut.usageError # "none" /\ ~HelpFlagValue
    THEN fnOut.usageError ELSE fnOut.result

\* await this.hooks.call('afterExecute', ...); this.#result = result
HelpAfterExecute ==
  /\ fnPc = "afterExecute"
  /\ LET e == fnIn.raised.afterExecute IN
       IF e # "none"
         THEN /\ fnPc' = "threw"
              /\ fnOut' = [fnOut EXCEPT !.log = @ \o HelpLogs, !.threw = e]
         ELSE /\ fnPc' = "done"
              /\ fnOut' = [fnOut EXCEPT !.log = @ \o HelpLogs, !.result = HelpResult]
  /\ UNCHANGED <<progVars, fnIn>>

NextHelp == HelpPrepare \/ HelpBeforeExecute \/ HelpStart \/ HelpAfterExecute

SpecHelp == InitHelp /\ [][NextHelp]_vars

(***************************************************************************)
(* Observations shared by the properties                                   *)
(***************************************************************************)
\* The lifecycle hooks fired by the latest prepare() and, after it, by the
\* latest execute().
InvocationLog == IF lastCall = "execute" THEN prepFired \o execFired ELSE prepFired

Positions(L, h) == { j \in DOMAIN L : L[j].h = h }
Count(L, h) == Cardinality(Positions(L, h))

\* prepare() returned, then execute() was called and returned.
Completed ==
  op = "idle" /\ lastCall = "execute" /\ outcome = "returned" /\ prepDone

\* No hook handler intervened and throw() was never called so far.
Undisturbed == budget = MaxInterventions /\ clean

\* The stages never decrease along L (stated on neighbours: <= is transitive).
StagesInOrder(L, Stage(_)) ==
  \A i \in 1..(Len(L) - 1) : Stage(L[i].h) <= Stage(L[i + 1].h)

\* Every afterCommand closes the step opened by the beforeCommand of the same
\* queue position; `inner` are the hooks that may fire between the two.
CommandsPaired(L, inner) ==
  \A j \in Positions(L, "afterCommand") :
    \E i \in Positions(L, "beforeCommand") :
      /\ i < j /\ L[i].i = L[j].i
      /\ \A k \in (i + 1)..(j - 1) : L[k].h \in inner

EndsIn(L, h) == Len(L) > 0 /\ L[Len(L)].h = h /\ Count(L, h) = 1

EndCalls == { k \in DOMAIN hcalls : hcalls[k].do = "end" }

\* In the latest call no hook handler used a mutator of its payload or threw,
\* and throw() was not called.
Quiet == budget = budgetAtCall /\ nBeforeError = 0

Executing == lastCall = "execute"
ExecuteReturned == op = "idle" /\ lastCall = "execute" /\ outcome = "returned"

\* The next()/end() calls made by the handler at queue position i.
CallsOf(i) == { k \in DOMAIN hcalls : hcalls[k].i = i }

\* The first call of each handler invocation.
FirstCalls == { k \in DOMAIN hcalls : k = 1 \/ hcalls[k - 1].i # hcalls[k].i }

Least(S) == CHOOSE k \in S : \A j \in S : k <= j
Greatest(S) == CHOOSE k \in S : \A j \in S : j <= k

InvocationsOf(i) == { n \in DOMAIN handlerLog : handlerLog[n].i = i }

\* The data the handler at position i received.
Received(i) == handlerLog[Least(InvocationsOf(i))].data

Fired(L, e) == { j \in DOMAIN L : L[j] = e }

(***************************************************************************)
(* C1                                                                      *)
(***************************************************************************)
ClaimedStage(h) ==
  CASE h \in {"beforeResolve", "beforeResolveNext"} -> 1
    [] h = "afterResolve" -> 2
    [] h = "beforeParse" -> 3
    [] h = "afterParse" -> 4
    [] h = "beforeExecute" -> 5
    [] h \in {"beforeCommand", "afterCommand"} -> 6
    [] h = "beforeEnd" -> 7
    [] h = "afterExecute" -> 8

ActualStage(h) == IF h = "beforeEnd" THEN 6 ELSE ClaimedStage(h)

C2_EndHalts ==
  (Executing /\ Quiet) =>
    \A k \in EndCalls :
      LET i == hcalls[k].i IN
        /\ handlerLog[Len(handlerLog)].i = i
        /\ \A n \in DOMAIN handlerLog : handlerLog[n].i <= i
        /\ Cardinality(InvocationsOf(i)) = 1
        /\ \A e \in DOMAIN execFired :
             execFired[e].h = "beforeCommand" => execFired[e].i <= i
        /\ ExecuteReturned =>
             /\ result = hcalls[k].d
             /\ Cardinality(Fired(execFired, Ev("afterCommand", i))) = 1

\* execute returned after the first of two queued handlers called end("b").
C2_Witness ==
  /\ ExecuteReturned /\ Quiet /\ Len(queue) = 2
  /\ hcalls = << HCall(0, "end", "b") >>
  /\ result = "b"

C4_AutoNext ==
  (Executing /\ Quiet) =>
    /\ (pc = "st_afterCommand" /\ called = "none") =>
         /\ st.index = cur + 1
         /\ st.data = Received(cur)
    /\ \A n \in DOMAIN handlerLog :
         LET i == handlerLog[n].i IN
           CallsOf(i) = {} =>
             /\ n < Len(handlerLog) =>
                  handlerLog[n + 1] = [i |-> i + 1, data |-> handlerLog[n].data]
             /\ (ExecuteReturned /\ i + 1 < Len(queue)) => n < Len(handlerLog)

\* Two handlers ran and neither called next or end.
C4_Witness ==
  /\ ExecuteReturned /\ Quiet
  /\ Len(handlerLog) = 2 /\ hcalls = <<>>
  /\ result = initialData

(***************************************************************************)
(* C5                                                                      *)
(***************************************************************************)
\* C5: when no hook handler intervenes, a second next() within one handler
\* invocation changes nothing: after the handler the index is one more than
\* before and data is what the first call gave, the handlers are invoked for
\* the queue positions 0, 1, 2, ... each once, and each receives the data of
\* the first call of the handler before it.
C5_SecondNextIsNoOp ==
  (Executing /\ Quiet) =>
    /\ \A n \in DOMAIN handlerLog : handlerLog[n].i = n - 1
    /\ \A n \in DOMAIN handlerLog :
         n > 1 =>
           handlerLog[n].data =
             IF CallsOf(n - 2) = {} THEN handlerLog[n - 1].data
             ELSE hcalls[Least(CallsOf(n - 2))].d
    /\ (pc = "st_afterCommand" /\ called = "next") =>
         /\ st.index = cur + 1
         /\ st.data = hcalls[Least(CallsOf(cur))].d

\* The first of two handlers called next("a") and then next("b").
C5_Witness ==
  /\ ExecuteReturned /\ Quiet
  /\ Len(handlerLog) = 2
  /\ CallsOf(0) = {1, 2}
  /\ hcalls[1].d = "a" /\ hcalls[2].d = "b"
  /\ handlerLog[2].data = "a"

C7_PrepareIdempotent ==
  [][ (op = "idle" /\ lastCall' = "prepare" /\ opsLeft' < opsLeft /\ prepDone) =>
        /\ op' = "idle" /\ outcome' = "returned"
        /\ UNCHANGED <<queue, options, optionValues, info, isReady, isResolved,
                       isParsed, result, initCalls, prepFired>>
    ]_vars

\* prepare() was called again on a Context whose queue holds two commands.
C7_Witness ==
  /\ reentry /\ lastCall = "prepare" /\ op = "idle"
  /\ Len(queue) = 2

(***************************************************************************)
(* C8                                                                      *)
(***************************************************************************)
\* C8 as claimed: each plugin's init is invoked at most once.
C8_ClaimedInvokedOnce ==
  \A i \in DOMAIN plugins : initCalls[i] <= 1

\* C8 (amended): over any sequence of preparePlugins() and prepare() calls,
\* each plugin's init returns normally at most once and is not invoked again
\* once it has; init is invoked only while the plugin's info.isReady is false,
\* so an init that threw is invoked again by a later call; info.isReady never
\* goes from true back to false.
C8_InitOnceSucceeded ==
  /\ [](\A i \in DOMAIN plugins : initReturns[i] <= 1)
  /\ [][ /\ \A i \in DOMAIN plugins :
              initReturns[i] = 1 => initCalls'[i] = initCalls[i]
         /\ \A i \in DOMAIN plugins :
              initCalls'[i] > initCalls[i] => ~info[plugins[i]].isReady
         /\ \A n \in DOMAIN info : info[n].isReady => info'[n].isReady
       ]_vars

\* An init that threw in one call was invoked again, and returned, in the next.
C8_Witness ==
  \E i \in DOMAIN plugins :
    /\ initCalls[i] = 2 /\ initReturns[i] = 1
    /\ info[plugins[i]].isReady

(***************************************************************************)
(* C9                                                                      *)
(***************************************************************************)
DuplicateNames ==
  \E i, j \in DOMAIN plugins : i # j /\ plugins[i] = plugins[j]

\* C9 as claimed: two plugins with the same name are never accepted, so that
\* when preparePlugins() has returned without any error every plugin's init
\* has been called.
C9_ClaimedNoSilentSkip ==
  (op = "idle" /\ lastCall = "preparePlugins" /\ outcome = "returned" /\ clean) =>
    /\ ~DuplicateNames
    /\ \A i \in DOMAIN plugins : HasInit(plugins[i]) => initCalls[i] >= 1

(***************************************************************************)
(* C10                                                                     *)
(***************************************************************************)
Starts(fr) == SelectSeq(fr.log, LAMBDA e : e.ev = "start")

\* C10: call(hook, payload) starts the handlers that are registered for the
\* hook when it is called (the constructor's and those added with on(), less
\* those removed) one after the other in the order of their registration,
\* each with the payload of the call, and starts a handler only after the
\* promise of the handler before it has settled; it starts none after a
\* promise that was rejected, and resolves only after all of them were
\* started and their promises fulfilled.
C10_CallOrder ==
  \A c \in DOMAIN regFrames :
    LET fr == regFrames[c]
        started == Starts(fr)
    IN
      /\ \A k \in DOMAIN fr.log :
           IF k % 2 = 1 THEN fr.log[k].ev = "start"
           ELSE /\ fr.log[k].ev \in {"fulfilled", "rejected"}
                /\ fr.log[k].reg = fr.log[k - 1].reg
                /\ fr.log[k].ev = "rejected" => k = Len(fr.log)
      /\ \A k \in DOMAIN started :
           /\ started[k].arg = fr.payload
           /\ k <= Len(fr.snap) =>
                started[k].fn = fr.snap[k].fn /\ started[k].reg = fr.snap[k].reg
           /\ \A j \in 1..(k - 1) : started[j].reg < started[k].reg
      /\ (fr.done /\ ~fr.rejected) =>
           /\ Len(started) >= Len(fr.snap)
           /\ Len(fr.log) = 2 * Len(started)

\* A call has returned after running two different handlers.
C10_Witness ==
  \E c \in DOMAIN regFrames :
    /\ regFrames[c].done /\ ~regFrames[c].rejected
    /\ Len(regFrames[c].snap) = 2
    /\ regFrames[c].snap[1].fn # regFrames[c].snap[2].fn
    /\ Len(regFrames[c].log) = 4

(***************************************************************************)
(* C11                                                                     *)
(***************************************************************************)
\* The registrations a call found in the array when it was called.
SnapRegs(fr) == { fr.snap[i].reg : i \in DOMAIN fr.snap }

\* C11 as claimed: a handler added with on() while a call of its hook is in
\* progress is not invoked by that call: every handler a call starts was
\* registered when the call began.
C11_ClaimedNotInProgress ==
  \A c \in DOMAIN regFrames :
    \A k \in DOMAIN regFrames[c].log :
      regFrames[c].log[k].ev = "start" =>
        regFrames[c].log[k].reg \in SnapRegs(regFrames[c])

(***************************************************************************)
(* C12                                                                     *)
(***************************************************************************)
\* C12 as claimed: off(hook, handler) removes the first registration of the
\* handler only, so that of n > 1 registrations n - 1 remain, and returns
\* true iff it removed one.
C12_ClaimedFirstOnly ==
  regLastOff.hook # "none" =>
    /\ regLastOff.before > 0 => regLastOff.after = regLastOff.before - 1
    /\ regLastOff.ret = (regLastOff.before > regLastOff.after)

(***************************************************************************)
(* C13                                                                     *)
(***************************************************************************)
\* The invocations of registration n by all the calls so far.
StartsOfReg(n) ==
  UNION { { <<c, k>> : k \in { j \in DOMAIN regFrames[c].log :
                                 /\ regFrames[c].log[j].ev = "start"
                                 /\ regFrames[c].log[j].reg = n } } :
          c \in DOMAIN regFrames }

OnceRegs ==
  { n \in 1..regCount :
      \E a \in DOMAIN regHeap : \E i \in DOMAIN regHeap[a] :
        regHeap[a][i].reg = n /\ regHeap[a][i].once }

\* C13 as claimed: a handler registered with once() is invoked at most once
\* over all the calls of its hook, overlapping calls included.
C13_ClaimedAtMostOnce ==
  \A n \in OnceRegs : Cardinality(StartsOfReg(n)) <= 1

(***************************************************************************)
(* C14                                                                     *)
(***************************************************************************)
\* C14 as claimed: while the asynchronous body of a once handler has not
\* completed, the call that invoked it has neither started its next handler
\* nor resolved.
C14_ClaimedOnceAwaited ==
  \A c \in DOMAIN regFrames :
    LET fr == regFrames[c]
        started == Starts(fr)
    IN \A r \in fr.detached :
         /\ ~fr.done
         /\ started[Len(started)].reg = r

(***************************************************************************)
(* C15                                                                     *)
(***************************************************************************)
\* C15 as claimed: when a beforeExecute handler called skip(), no command
\* handler is invoked and the payload afterExecute is called with reports
\* skipped == true.
C15_ClaimedSkipReported ==
  (op = "execute" /\ pc = "ex_after" /\ skipped) =>
    /\ handlerLog = <<>>
    /\ "skipped" \in DOMAIN AfterExecutePayload(locResult, st)
    /\ AfterExecutePayload(locResult, st)["skipped"] = TRUE

(***************************************************************************)
(* C16: Context.throw(err) first calls the beforeError handlers with the   *)
(* error it was given; when a handler called ignore() it returns normally  *)
(* (no error is pending and the running method does not reject);           *)
(* otherwise it throws the value of the last setError call, or err itself  *)
(* when no handler called setError.                                        *)
(***************************************************************************)
LastSetError(calls, e) ==
  IF \E i \in DOMAIN calls : calls[i].do = "setError"
    THEN calls[CHOOSE i \in DOMAIN calls :
                 /\ calls[i].do = "setError"
                 /\ \A j \in DOMAIN calls : calls[j].do = "setError" => j <= i].e
    ELSE e

C16_ThrowFunnel ==
  [][pc = "th_beforeError" =>
       /\ nBeforeError' = nBeforeError + 1
       /\ lastThrow'.given = err
       /\ IF \E i \in DOMAIN lastThrow'.calls : lastThrow'.calls[i].do = "ignore"
            THEN err' = "none" /\ outcome' # "threw" /\ pc' # "th_beforeError"
            ELSE /\ err' = LastSetError(lastThrow'.calls, err)
                 /\ \/ op' = "idle" /\ outcome' = "threw"
                    \/ op = "prepare" /\ pc' = "th_beforeError" /\ thSite' = "pr_catch"]_vars

\* throw() has thrown the second of two replacements out of the running method.
C16_Witness ==
  /\ op = "idle" /\ outcome = "threw"
  /\ Len(lastThrow.calls) = 2
  /\ lastThrow.calls[1].do = "setError" /\ lastThrow.calls[2].do = "setError"
  /\ lastThrow.calls[1].e # lastThrow.calls[2].e
  /\ lastThrow.threw = lastThrow.calls[2].e /\ err = lastThrow.threw

(***************************************************************************)
(* C17: every error that propagates out of prepare() or execute() was      *)
(* first delivered to the beforeError handlers through Context.throw: a    *)
(* call of prepare or execute that rejected has called beforeError, and    *)
(* its last throw() threw the error it rejected with.                      *)
(***************************************************************************)
C17_ClaimedFunnel ==
  (op = "idle" /\ outcome = "threw" /\ lastCall \in {"prepare", "execute"}) =>
     /\ nBeforeError >= 1
     /\ lastThrow.threw = err

(***************************************************************************)
(* C19: prepare() raises SubcommandRequiredError exactly when the last     *)
(* command of the queue, as it stands after the afterResolve handlers ran  *)
(* (with the commands they added), declares requiresSubcommand; the error  *)
(* is raised nowhere else, and no parse hook has fired in that prepare()   *)
(* when it is raised.                                                      *)
(***************************************************************************)
IsParseHook(e) == e.h \in {"beforeParse", "afterParse"}

RaisesSubcommandRequired ==
  /\ err' = "SubcommandRequiredError" /\ pc' = "th_beforeError"
  /\ thSite' = "rs_subcmd"

C19_SubcommandRequired ==
  [][/\ pc = "rs_after" =>
          /\ RaisesSubcommandRequired <=>
               (queue' # <<>> /\ queue'[Len(queue')].req)
          /\ RaisesSubcommandRequired =>
               /\ op = "prepare"
               /\ SelectSeq(prepFired', IsParseHook) = <<>>
     /\ (err' = "SubcommandRequiredError" /\ err # "SubcommandRequiredError") =>
          pc = "rs_after"]_vars

\* An afterResolve handler added a command that requires a subcommand behind
\* one that does not, and the error is pending.
C19_Witness ==
  /\ tokens = <<"foo">> /\ Len(queue) = 2
  /\ queue[1].name = "foo" /\ queue[2].name = "dep"
  /\ err = "SubcommandRequiredError" /\ thSite = "rs_subcmd"

\* An afterResolve handler added a command behind one that requires a
\* subcommand, and prepare() went on to the parse phase without an error.
C19_WitnessAdded ==
  /\ tokens = <<"dep">> /\ Len(queue) = 2
  /\ queue[1].name = "dep" /\ queue[2].name = "foo"
  /\ pc = "ps_start" /\ err = "none" /\ nBeforeError = 0

(***************************************************************************)
(* C18: Context.exit(code, message) calls beforeExit first. When a handler *)
(* called cancel() the process is not terminated, nothing is logged and    *)
(* the command chain goes on. Otherwise the process terminates with the    *)
(* code of the last setCode call (else code), after the message of the     *)
(* last setMessage call (else message), when there is one, was logged      *)
(* through client.log for code 0 and through client.error otherwise.       *)
(***************************************************************************)
LastValue(calls, do, given) ==
  IF \E i \in DOMAIN calls : calls[i].do = do
    THEN calls[CHOOSE i \in DOMAIN calls :
                 /\ calls[i].do = do
                 /\ \A j \in DOMAIN calls : calls[j].do = do => j <= i].v
    ELSE given

C18_Exit ==
  [][(pc = "st_handler" /\ script # <<>> /\ Head(script).do = "exit") =>
       LET x == lastExit'
           code == LastValue(x.calls, "setCode", x.code)
           message == LastValue(x.calls, "setMessage", x.message)
       IN /\ x.called
          /\ IF \E i \in DOMAIN x.calls : x.calls[i].do = "cancel"
               THEN /\ ~x.exited /\ x.via = "none" /\ x.logged = "none"
                    /\ op' = "execute" /\ pc' = "st_handler"
                    /\ st' = st /\ queue' = queue
               ELSE /\ x.exited /\ x.status = code
                    /\ op' = "exited" /\ pc' = "exited"
                    /\ IF message = "none"
                         THEN x.via = "none"
                         ELSE /\ x.logged = message
                              /\ x.via = IF code = 0 THEN "log" ELSE "error"]_vars

\* exit(1, "bye") ended the process with the code and the message the
\* beforeExit handlers set last: status 0, "m2" logged through client.log.
C18_Witness ==
  /\ lastExit.exited /\ lastExit.code = 1 /\ lastExit.status = 0
  /\ lastExit.message = "bye" /\ lastExit.logged = "m2" /\ lastExit.via = "log"
  /\ op = "exited"

\* A cancelled exit: the handler that called exit was followed by the handler
\* of the next command, and execute() returned.
C18_WitnessCancelled ==
  /\ lastExit.called /\ ~lastExit.exited
  /\ op = "idle" /\ lastCall = "execute" /\ outcome = "returned"
  /\ Len(handlerLog) = 2

(***************************************************************************)
(* C20: when run() is over, it has returned context.result if no error     *)
(* escaped prepare() and execute(); it has returned the error itself if a  *)
(* ClientError escaped; it has rethrown the same error if another CliError *)
(* escaped; and for any other value it has thrown a new CliError with that *)
(* value's message.                                                        *)
(***************************************************************************)
ClientErrorClasses == {"ClientError"}
CliErrorClasses ==
  {"CliError", "UsageError", "CommandRequiredError", "NotFoundError",
   "SubcommandRequiredError"}

C20_RunTranslates ==
  runPc = "done" =>
    IF outcome = "returned"
      THEN /\ lastCall = "execute"
           /\ runOut = [kind |-> "returned",
                        value |-> [class |-> "result", message |-> result]]
      ELSE /\ outcome = "threw"
           /\ CASE ErrorClass(err) \in ClientErrorClasses ->
                     runOut = [kind |-> "returned",
                               value |-> [class |-> ErrorClass(err), message |-> err]]
                [] ErrorClass(err) \in CliErrorClasses ->
                     runOut = [kind |-> "threw",
                               value |-> [class |-> ErrorClass(err), message |-> err]]
                [] OTHER ->
                     runOut = [kind |-> "threw",
                               value |-> [class |-> "CliError", message |-> err]]

\* A command handler threw a ClientError and run() returned it.
C20_Witness ==
  /\ runPc = "done" /\ outcome = "threw" /\ err = "HandlerError"
  /\ runOut.kind = "returned" /\ runOut.value.class = "ClientError"

\* A plugin's init threw a plain Error and run() threw a CliError around it.
C20_WitnessWrapped ==
  /\ runPc = "done" /\ err = "InitError"
  /\ runOut.kind = "threw" /\ runOut.value = [class |-> "CliError", message |-> "InitError"]

\* run() rethrew the SubcommandRequiredError of prepare().
C20_WitnessRethrown ==
  /\ runPc = "done" /\ err = "SubcommandRequiredError"
  /\ runOut.kind = "threw" /\ runOut.value.class = "SubcommandRequiredError"

\* run() returned the result of execute().
C20_WitnessResult ==
  /\ runPc = "done" /\ outcome = "returned" /\ runOut.value.message = "b"

(***************************************************************************)
(* C30: splitTokens(joinTokens(xs)) is the flattened list of xs, for lists *)
(* of space-free tokens, nested or not, with empty strings and empty       *)
(* sub-lists, which joinTokens is said to drop. The flattened list is      *)
(* taken with the empty strings or without them: the code gives neither.   *)
(***************************************************************************)
RECURSIVE Flatten(_)
Flatten(ts) ==
  IF ts = <<>> THEN <<>>
  ELSE (IF Head(ts).list THEN Flatten(Head(ts).items) ELSE << Head(ts).s >>)
       \o Flatten(Tail(ts))

C30_ClaimedRoundTrip ==
  fnPc = "split" =>
    \/ fnOut = Flatten(fnIn)
    \/ fnOut = SelectSeq(Flatten(fnIn), LAMBDA w : w # <<>>)

\* The round trip on lists without empty strings and without empty sub-lists.
C30_RoundTripNonEmpty ==
  (fnPc = "split" /\ \A i \in DOMAIN fnIn :
       IF fnIn[i].list
         THEN fnIn[i].items # <<>> /\ \A j \in DOMAIN fnIn[i].items : fnIn[i].items[j].s # <<>>
         ELSE fnIn[i].s # <<>>)
    => fnOut = Flatten(fnIn)

(***************************************************************************)
(* C21: run() gives the Context joinTokens(defaultCommand, command) exactly *)
(* when defaultCommand is set (given and not the empty string) and the     *)
(* joined command is empty or starts with '-'; in every other case it      *)
(* gives the joined command unchanged.                                     *)
(***************************************************************************)
C21_DefaultCommand ==
  fnPc = "commandString" =>
    LET joined == JoinTokens(<< List(fnIn.command) >>)
        isSet == fnIn.dflt # <<>> /\ fnIn.dflt[1] # Str(<<>>)
        prepend == isSet /\ (joined = <<>> \/ joined[1] = "-")
    IN fnOut = IF prepend
                 THEN JoinTokens(<< fnIn.dflt[1], List(fnIn.command) >>)
                 ELSE joined

\* run({ command: ['-f'], defaultCommand: 'd' }) gives the Context "d -f".
C21_Witness ==
  /\ fnPc = "commandString"
  /\ fnIn.command = << Str(<< "-", "f" >>) >> /\ fnIn.dflt = << Str(<< "d" >>) >>
  /\ fnOut = << "d", " ", "-", "f" >>

(***************************************************************************)
(* C22: a resolved command module declared isMiddleware: false holds the   *)
(* pass-through handler exactly when it has a continuation (a non-empty    *)
(* remaining command string); a middleware command, and a command that is  *)
(* the last one resolved, holds the handler it was written with.           *)
(***************************************************************************)
C22_ClaimedHandler ==
  \A i \in DOMAIN fnOut.queue :
    LET r == fnOut.queue[i] IN
      r.module => (r.handler = "passThrough" <=> (~r.mw /\ r.rem # <<>>))

\* The same for the first resolution of the process only.
C22_FirstResolution == fnOut.round = 1 => C22_ClaimedHandler

(***************************************************************************)
(* C23: one resolution step picks its match by fixed precedence: the       *)
(* module file named after the token, else the directory named after the   *)
(* token (pass-through command), else the first [name] or [...name] entry  *)
(* in directory order; with no match or no commands directory the step     *)
(* fails with NotFoundError, and on an empty command string with           *)
(* CommandRequiredError.                                                   *)
(***************************************************************************)
StepFails(error) == fnPc' = "failed" /\ fnOut'.error = error
StepMatches(e, module) ==
  /\ fnPc' # "failed"
  /\ fnOut'.queue[Len(fnOut'.queue)].id = e.id
  /\ fnOut'.queue[Len(fnOut'.queue)].module = module

C23_WitnessModule ==
  /\ Len(fnIn.root) = 2 /\ fnIn.root[1].kind = "param" /\ fnIn.root[2].file
  /\ Len(fnOut.queue) >= 1 /\ fnOut.queue[1].id = fnIn.root[2].id

\* A step found no match, and a step found no commands directory.
C23_WitnessNotFound ==
  /\ fnPc = "failed" /\ fnOut.error = "NotFoundError" /\ fnOut.dir = 1

C23_WitnessNoDirectory ==
  /\ fnPc = "failed" /\ fnOut.error = "NotFoundError" /\ fnOut.dir = 0

C23_WitnessCommandRequired ==
  /\ fnPc = "failed" /\ fnOut.error = "CommandRequiredError"

(***************************************************************************)
(* C24: for every input that resolves, the commandTokens of the queue,     *)
(* concatenated in queue order, are a prefix of the token list of the      *)
(* input command string: of its arguments, or of its arguments that are    *)
(* no flags.                                                               *)
(***************************************************************************)
RECURSIVE QueueTokens(_)
QueueTokens(q) == IF q = <<>> THEN <<>> ELSE q[1].tokens \o QueueTokens(Tail(q))

IsPrefix(a, b) == Len(a) <= Len(b) /\ SubSeq(b, 1, Len(a)) = a

InputString == JoinTokens(<< List(Strs(fnOut.argv)) >>)

C24_ClaimedPrefix ==
  fnPc = "resolved" =>
    \/ IsPrefix(QueueTokens(fnOut.queue), SplitTokens(InputString))
    \/ IsPrefix(QueueTokens(fnOut.queue), ParsedTokens(InputString))

\* The same with the token list read as all the arguments of the input.
C24_PrefixOfArguments ==
  fnPc = "resolved" => IsPrefix(QueueTokens(fnOut.queue), SplitTokens(InputString))

\* The same with the token list read as the arguments that are no flags.
C24_PrefixOfParsedTokens ==
  fnPc = "resolved" => IsPrefix(QueueTokens(fnOut.queue), ParsedTokens(InputString))

(***************************************************************************)
(* C25: when a step matches a [...name] entry, params[name] is the list of *)
(* all remaining input tokens from the current token on, verbatim and in   *)
(* order (all the arguments, or all the arguments that are no flags), the  *)
(* remaining command string is empty and no further step follows.          *)
(***************************************************************************)
MatchedSpread ==
  /\ fnPc = "resolving" /\ fnPc' # "failed"
  /\ fnOut'.queue[Len(fnOut'.queue)].param = "spread"

C25_ClaimedSpread ==
  [][ MatchedSpread =>
        /\ \/ fnOut'.queue[Len(fnOut'.queue)].params = SplitTokens(fnOut.rem)
           \/ fnOut'.queue[Len(fnOut'.queue)].params = ParsedTokens(fnOut.rem)
        /\ fnOut'.rem = <<>>
        /\ fnPc' = "resolved" ]_vars

\* The same for [...name] module files only, with the tokens read as all the
\* arguments, and with the tokens read as the arguments that are no flags.
C25_SpreadOfArguments ==
  [][ MatchedSpread /\ fnOut'.queue[Len(fnOut'.queue)].module =>
        fnOut'.queue[Len(fnOut'.queue)].params = SplitTokens(fnOut.rem) ]_vars

C25_SpreadOfParsedTokens ==
  [][ MatchedSpread /\ fnOut'.queue[Len(fnOut'.queue)].module =>
        fnOut'.queue[Len(fnOut'.queue)].params = ParsedTokens(fnOut.rem) ]_vars

\* What does hold: the remaining command string is empty and no step follows.
C25_SpreadEndsResolution ==
  [][ MatchedSpread => fnOut'.rem = <<>> /\ fnPc' = "resolved" ]_vars

(***************************************************************************)
(* C26: a required option that is absent never makes the parse of          *)
(* prepare() fail: the parse fails only on a conflicts or a requires       *)
(* violation among the options given; the absence shows when a handler     *)
(* reads the option, and the reader then prompts for the value.            *)
(***************************************************************************)
PeerViolation(kind) ==
  \E k \in fnIn.given :
    /\ fnIn.config[k].peer = kind
    /\ (OtherKey(k) \in fnIn.given) = (kind = "conflicts")

C26_RequiredAbsent ==
  /\ fnPc = "failed" =>
       fnOut.error \in {"conflicts", "requires"} /\ PeerViolation(fnOut.error)
  /\ ~PeerViolation("conflicts") /\ ~PeerViolation("requires") => fnPc # "failed"
  /\ \A k \in fnOut.read :
       k \in fnOut.prompted <=> (fnIn.config[k].required /\ k \notin fnIn.given)
  /\ fnOut.prompted \subseteq fnOut.read

\* The parse succeeded with a required option absent, and its reader prompted.
C26_Witness ==
  /\ fnPc = "parsed"
  /\ fnIn.config["env"].required /\ "env" \notin fnIn.given
  /\ "env" \in fnOut.prompted

(***************************************************************************)
(* C27: after prepare(), for every option key the declaration held in      *)
(* context.options is the one contributed last in the order constructor    *)
(* options, plugins in registration order, commands in queue order; a key  *)
(* declared by one contributor only holds that declaration, and a key      *)
(* nobody declares holds none.                                             *)
(***************************************************************************)
Contributors == << fnIn.ctor >> \o fnIn.plugins \o fnIn.commands

C27_LastDeclarationWins ==
  fnPc = "prepared" =>
    \A k \in Keys :
      LET declaring == { i \in DOMAIN Contributors : Contributors[i][k] # "none" }
      IN IF declaring = {} THEN fnOut.options[k] = "none"
         ELSE \E i \in declaring :
                /\ \A j \in declaring : j <= i
                /\ fnOut.options[k] = Contributors[i][k]

\* A key declared by the constructor, a plugin and a command holds the
\* command's declaration, next to a key only the constructor declares.
C27_Witness ==
  /\ fnPc = "prepared"
  /\ fnIn.ctor["k1"] # "none" /\ fnIn.ctor["k2"] # "none"
  /\ Len(fnIn.plugins) = 2 /\ fnIn.plugins[1]["k1"] # "none"
  /\ fnIn.plugins[2]["k1"] # "none" /\ fnIn.plugins[2]["k2"] = "none"
  /\ Len(fnIn.commands) = 2 /\ fnIn.commands[1]["k1"] # "none"
  /\ fnIn.commands[2]["k1"] = "none" /\ fnIn.commands[1]["k2"] = "none"
  /\ fnIn.commands[2]["k2"] = "none" /\ fnIn.plugins[1]["k2"] = "none"
  /\ fnOut.options = [k1 |-> "command1", k2 |-> "constructor"]

(***************************************************************************)
(* C28: with the help plugin installed, an invocation whose help flag is   *)
(* set runs no command handler, and the help text is logged to the client  *)
(* during afterExecute.                                                    *)
(***************************************************************************)
C28_ClaimedHelpText ==
  fnIn.helpFlag =>
    /\ ~fnOut.handlerRan
    /\ fnPc = "done" => \E i \in DOMAIN fnOut.log : fnOut.log[i] = ClientLog("helpText")

\* What does hold: no command handler runs when the help flag is set.
C28_NoHandlerRuns == fnIn.helpFlag => ~fnOut.handlerRan

(***************************************************************************)
(* C29: with the help plugin installed, a UsageError raised during prepare *)
(* or execute does not propagate; the plugin captures and ignores it, no   *)
(* command runs once it is captured, and when the help flag is not set the *)
(* captured error is logged and is the result of execute; an error that is *)
(* no UsageError is not ignored.                                           *)
(***************************************************************************)
C29_ClaimedCapture ==
  /\ ~IsUsageError(fnOut.threw)
  /\ fnOut.capturedBeforeStart => ~fnOut.handlerRan
  /\ fnPc = "done" /\ fnOut.usageError # "none" /\ ~HelpFlagValue =>
       /\ \E i \in DOMAIN fnOut.log : fnOut.log[i] = ClientError(fnOut.usageError)
       /\ fnOut.result = fnOut.usageError
  /\ fnOut.usageError # "none" => IsUsageError(fnOut.usageError)

\* The same for the first definition of the plugin and the errors that reach
\* Context.throw (raised in prepare() or by a command handler).
C29_ThrownToContext ==
  fnIn.definition = 1 /\ fnIn.raised.beforeExecute = "none"
    /\ fnIn.raised.afterExecute = "none" => C29_ClaimedCapture

(***************************************************************************)
(* C31: after a resolution step the remaining command string is empty when *)
(* only flags were left, and is otherwise the part of the original         *)
(* remaining string from its first argument that is no flag on: nothing    *)
(* after that argument is altered, also when its text occurs earlier       *)
(* inside a flag.                                                          *)
(***************************************************************************)
RECURSIVE FromFirstToken(_)
FromFirstToken(argv) ==
  IF argv = <<>> THEN <<>>
  ELSE IF IsFlag(Head(argv)) THEN FromFirstToken(Tail(argv))
  ELSE argv

C31_ClaimedRemaining ==
  fnPc = "prepared" => fnOut = JoinTokens(<< List(Strs(FromFirstToken(fnIn))) >>)

\* The same when the text of the first token occurs in no flag before it.
C31_NoEarlierOccurrence ==
  fnPc = "prepared" /\ Len(FromFirstToken(fnIn)) > 0
    /\ (\A i \in 1..(Len(fnIn) - Len(FromFirstToken(fnIn))) :
          IndexOf(fnIn[i], Head(FromFirstToken(fnIn))) = 0)
    => fnOut = JoinTokens(<< List(Strs(FromFirstToken(fnIn))) >>)

(***************************************************************************)
(* C32: in every reachable state of a Context, isReady implies isResolved  *)
(* and isParsed, also when a beforeError handler ignores an error raised   *)
(* during preparation.                                                     *)
(***************************************************************************)
C32_ClaimedReady == isReady => isResolved /\ isParsed

\* The same as long as no error has been handed to throw().
C32_ReadyWithoutIgnore == clean => (isReady => isResolved /\ isParsed)

(***************************************************************************)
(* C33: execute() never invokes a command handler while the Context is not *)
(* ready: with isReady false and no skip in beforeExecute, state.start is  *)
(* not reached, whatever the beforeError handlers do.                      *)
(***************************************************************************)
C33_ClaimedNotReady ==
  op = "execute" /\ ~isReady => pc \notin {"st_start"} /\ handlerLog = <<>>

\* The same as long as no beforeError handler has ignored the error.
C33_NotReadyRethrown ==
  op = "execute" /\ ~isReady /\ lastThrow.threw # "nothing" =>
    pc \notin {"st_start"} /\ handlerLog = <<>>

\* A command handler has run in an execute() on a Context that is not ready.
C33_HandlerRanNotReady == op = "execute" /\ ~isReady /\ handlerLog # <<>>

(***************************************************************************)
(* C34: when prepare() fails after commands were appended to the queue and *)
(* is called again on the same Context, the queue holds each resolved      *)
(* command once. The commands compared are the ones resolved from a token  *)
(* of the input that is not its last (a command added by a handler has no  *)
(* remaining tokens and is not one of them).                               *)
(***************************************************************************)
ResolvedAt(k) ==
  [name |-> tokens[k], req |-> Modules[tokens[k]].req,
   opt |-> Modules[tokens[k]].opt,
   remaining |-> SubSeq(tokens, k + 1, Len(tokens))]

C34_ClaimedOnce ==
  \A k \in 1..(Len(tokens) - 1) :
    tokens[k] \in DOMAIN Modules =>
      \A i, j \in DOMAIN queue :
        queue[i] = ResolvedAt(k) /\ queue[j] = ResolvedAt(k) => i = j

\* The same within the first call of prepare() on the Context.
C34_OnceInFirstCall == opsLeft >= MaxOps - 1 /\ lastCall # "execute" => C34_ClaimedOnce

(***************************************************************************)
(* C35: every command a beforeResolve handler passes to                    *)
(* addResolvedCommands is in the command queue after resolution, in the    *)
(* order given, whether or not the handler also calls skip().              *)
(***************************************************************************)
RECURSIVE IsSubsequence(_, _)
IsSubsequence(a, b) ==
  IF a = <<>> THEN TRUE
  ELSE IF b = <<>> THEN FALSE
  ELSE IF Head(a) = Head(b) THEN IsSubsequence(Tail(a), Tail(b))
  ELSE IsSubsequence(a, Tail(b))

C35_ClaimedSeeded ==
  fnPc = "resolved" => IsSubsequence(fnIn.given, fnOut.queue)

\* The same when the handler also calls skip().
C35_SeededWithSkip ==
  fnPc = "resolved" /\ fnIn.skip => IsSubsequence(fnIn.given, fnOut.queue)

(***************************************************************************)
(* C36: for each error raised during prepare() the beforeError handlers    *)
(* are called once: throw() never calls them with the error that the       *)
(* throw() before it, in the same call of prepare(), has just rethrown.    *)
(***************************************************************************)
C36_ClaimedOnce ==
  [][ op = "prepare" /\ pc = "th_beforeError" /\ nBeforeError' = nBeforeError + 1
        => lastThrow.threw # err ]_vars

\* The same for the calls of execute().
C36_OnceInExecute ==
  [][ op = "execute" /\ pc = "th_beforeError" /\ nBeforeError' = nBeforeError + 1
        => lastThrow.threw # err ]_vars

(***************************************************************************)
(* C37: a non-middleware command module that is resolved as the last       *)
(* command of a resolution runs the handler it was written with, whatever  *)
(* was resolved before in the same process.                                *)
(***************************************************************************)
LastResolved == fnOut.queue[Len(fnOut.queue)]

C37_ClaimedLastAuthored ==
  fnPc = "resolved" /\ LastResolved.module /\ ~LastResolved.mw
    => LastResolved.handler = "authored"

\* With no resolution before it in the process, the last command does.
C37_LastAuthoredAtFirst == fnOut.round = 1 => C37_ClaimedLastAuthored

\* A middleware module holds its authored handler after any resolutions.
C37_MiddlewareUnchanged ==
  \A i \in DOMAIN fnOut.queue :
    fnOut.queue[i].module /\ fnOut.queue[i].mw
      => fnOut.handlers[fnOut.queue[i].id] = "authored"

(***************************************************************************)
(* C38: with the default resolver each resolution step leaves a remaining  *)
(* command string strictly shorter than the command string it was given,   *)
(* and the loop makes at most as many steps as the input has tokens.       *)
(***************************************************************************)
C38_ClaimedShorter == fnOut.steps > 0 => Len(fnOut.rem) < Len(fnOut.given)
C38_ClaimedSteps == fnOut.steps <= Len(SplitTokens(fnIn))
C38_ClaimedTermination == C38_ClaimedShorter /\ C38_ClaimedSteps

\* Both hold for a command string typed without quotes.
C38_TerminationUnquoted ==
  ~Includes(fnIn, Quote) => C38_ClaimedTermination

\* The loop is over after at most as many steps as the input has pieces
\* between spaces.
C38_StepsWithinPieces == fnOut.steps <= Len(SplitString(fnIn, Space))

(***************************************************************************)
(* plugins/logger: the handlers the logger plugin keeps on the hooks of    *)
(* the context, under enableLogger, disableLogger and toggleLogger. Each   *)
(* hook holds the list of its handlers; "logger" is the logger's handler   *)
(* for that hook, "other" a handler of another plugin.                     *)
(***************************************************************************)
MaxLoggerCalls == 3

LoggerBaseHooks == {"beforeExecute", "beforeCommand", "afterCommand", "afterExecute"}
LoggerVerboseHooks == {"beforeResolve", "afterResolve", "beforeError", "beforeExit"}
LoggerHooks == LoggerBaseHooks \cup LoggerVerboseHooks

\* The hooks _enableLogger calls hooks.on for, and _disableLogger hooks.off.
EnabledHooks(verbose) ==
  LoggerBaseHooks \cup (IF verbose THEN LoggerVerboseHooks ELSE {})
DisabledHooks(verbose) ==
  {"beforeExecute", "beforeCommand", "afterExecute"}
    \cup (IF verbose THEN LoggerVerboseHooks ELSE {})

\* hooks.on(hook, handler) and hooks.off(hook, handler) for each hook of hs.
HooksOn(handlers, hs, f) ==
  [h \in LoggerHooks |-> IF h \in hs THEN Append(handlers[h], f) ELSE handlers[h]]
HooksOff(handlers, hs, f) ==
  [h \in LoggerHooks |->
     IF h \in hs THEN SelectSeq(handlers[h], LAMBDA g : g # f) ELSE handlers[h]]

\* _enableLogger and _disableLogger as init assigns them.
EnableLogger(lg, verbose) ==
  [lg EXCEPT !.handlers = HooksOn(@, EnabledHooks(verbose), "logger"),
             !.enabled = TRUE]
DisableLogger(lg, verbose) ==
  [lg EXCEPT !.handlers = HooksOff(@, DisabledHooks(verbose), "logger"),
             !.enabled = FALSE]

NoLoggerCall == [hook |-> "none", records |-> 0, enabled |-> FALSE]

\* logger({ enabled, verbose }) added to a context on which another plugin
\* has a beforeExecute handler.
InitLogger ==
  /\ IdleProgram
  /\ fnIn \in [enabled : BOOLEAN, verbose : BOOLEAN]
  /\ fnPc = "constructed"
  /\ fnOut = [enabled |-> TRUE,
              handlers |-> [h \in LoggerHooks |->
                              IF h = "beforeExecute" THEN << "other" >> ELSE <<>>],
              calls |-> 0, last |-> NoLoggerCall]

\* init: _enabled = enabled; ...; if (_enabled) _enableLogger();
LoggerInit ==
  /\ fnPc = "constructed"
  /\ fnOut' = IF fnIn.enabled THEN EnableLogger(fnOut, fnIn.verbose)
              ELSE [fnOut EXCEPT !.enabled = FALSE]
  /\ fnPc' = "ready"
  /\ UNCHANGED <<progVars, fnIn>>

LoggerCalled(lg) == [lg EXCEPT !.calls = @ + 1, !.last = NoLoggerCall]

\* enableLogger()
CallEnableLogger ==
  /\ fnPc = "ready" /\ fnOut.calls < MaxLoggerCalls
  /\ fnOut' = LoggerCalled(EnableLogger(fnOut, fnIn.verbose))
  /\ UNCHANGED <<progVars, fnIn, fnPc>>

\* disableLogger()
CallDisableLogger ==
  /\ fnPc = "ready" /\ fnOut.calls < MaxLoggerCalls
  /\ fnOut' = LoggerCalled(DisableLogger(fnOut, fnIn.verbose))
  /\ UNCHANGED <<progVars, fnIn, fnPc>>

\* toggleLogger(): _enabled ? _disableLogger() : _enableLogger()
CallToggleLogger ==
  /\ fnPc = "ready" /\ fnOut.calls < MaxLoggerCalls
  /\ fnOut' = LoggerCalled(IF fnOut.enabled THEN DisableLogger(fnOut, fnIn.verbose)
                           ELSE EnableLogger(fnOut, fnIn.verbose))
  /\ UNCHANGED <<progVars, fnIn, fnPc>>

\* hooks.call(hook, payload): each logger handler on the hook writes a record.
LoggerHookCalled ==
  /\ fnPc = "ready"
  /\ \E h \in LoggerHooks :
       fnOut' = [fnOut EXCEPT !.last =
                   [hook |-> h, enabled |-> fnOut.enabled,
                    records |-> Len(SelectSeq(fnOut.handlers[h],
                                              LAMBDA g : g = "logger"))]]
  /\ UNCHANGED <<progVars, fnIn, fnPc>>

NextLogger ==
  \/ LoggerInit \/ CallEnableLogger \/ CallDisableLogger \/ CallToggleLogger
  \/ LoggerHookCalled

SpecLogger == InitLogger /\ [][NextLogger]_vars

(***************************************************************************)
(* C39: while an initialized logger is disabled none of its handlers is    *)
(* registered on any hook, so that no hook call writes a log record; and   *)
(* after any enableLogger, disableLogger and toggleLogger calls each       *)
(* logger handler is registered at most once per hook.                     *)
(***************************************************************************)
LoggerCount(h) == Len(SelectSeq(fnOut.handlers[h], LAMBDA g : g = "logger"))

C39_ClaimedDisabled ==
  fnPc = "ready" /\ ~fnOut.enabled =>
    /\ \A h \in LoggerHooks : LoggerCount(h) = 0
    /\ fnOut.last.records = 0
C39_ClaimedAtMostOnce == \A h \in LoggerHooks : LoggerCount(h) <= 1
C39_ClaimedLogger == C39_ClaimedDisabled /\ C39_ClaimedAtMostOnce

\* While disabled, the logger has no handler on a hook other than
\* afterCommand.
C39_DisabledButAfterCommand ==
  fnPc = "ready" /\ ~fnOut.enabled =>
    \A h \in LoggerHooks \ {"afterCommand"} : LoggerCount(h) = 0

\* The handlers of other plugins stay as they were registered.
C39_OthersUntouched ==
  \A h \in LoggerHooks :
    SelectSeq(fnOut.handlers[h], LAMBDA g : g # "logger")
      = IF h = "beforeExecute" THEN << "other" >> ELSE <<>>

(***************************************************************************)
(* Cli.command(path, module): the map of inline commands. A path is the    *)
(* sequence of its characters; the module of the k-th call is module k.    *)
(***************************************************************************)
MaxSegments == 3
MaxCommands == 2

Slash == "/"
SegmentNames == { << "a" >>, << "b" >> }
RelativePaths ==
  { JoinStrings(segs, << Slash >>) :
      segs \in UNION { [1..n -> SegmentNames] : n \in 1..MaxSegments } }
\* The paths /^[a-zA-Z0-9_\/]+$/ lets through, a leading slash included.
ValidPaths ==
  RelativePaths
    \cup { << Slash >> \o JoinStrings(segs, << Slash >>) :
             segs \in UNION { [1..n -> SegmentNames] : n \in 1..(MaxSegments - 1) } }

passThroughCommand == [kind |-> "passThrough", n |-> 0]
Module(k) == [kind |-> "module", n |-> k]

\* joinTokens(currentPath, token, { delimiter: '/' }) on strings without
\* spaces: the two strings joined by the delimiter, an empty one included.
JoinPath(currentPath, token) == JoinStrings(<< currentPath, token >>, << Slash >>)

\* splitTokens(path, '/') on a path, which holds no quotes.
SplitPath(path) ==
  IF path = <<>> THEN <<>> ELSE SplitLoop(SplitString(path, Slash), <<>>, <<>>, FALSE)

\* this.virtualCommands.set(path, module)
MapSet(map, key, value) ==
  [k \in DOMAIN map \cup {key} |-> IF k = key THEN value ELSE map[k]]

\* while (pathTokens.length) { token = shift(); if (!token) continue;
\*   currentPath = joinTokens(...); if (!has(currentPath)) set(currentPath,
\*   passThroughCommand); }
RECURSIVE CreatePassThroughs(_, _, _)
CreatePassThroughs(map, pathTokens, currentPath) ==
  IF pathTokens = <<>> THEN map
  ELSE IF Head(pathTokens) = <<>>
    THEN CreatePassThroughs(map, Tail(pathTokens), currentPath)
  ELSE LET next == JoinPath(currentPath, Head(pathTokens)) IN
    CreatePassThroughs(
      IF next \in DOMAIN map THEN map ELSE MapSet(map, next, passThroughCommand),
      Tail(pathTokens), next)

\* Cli.command(path, module)
Command(map, path, module) ==
  LET split == SplitPath(path)
      pathTokens == SubSeq(split, 1, Len(split) - 1)
  IN MapSet(CreatePassThroughs(map, pathTokens, <<>>), path, module)

NoLookup == [name |-> <<>>, found |-> FALSE]

InitCli ==
  /\ IdleProgram
  /\ fnIn = <<>>
  /\ fnPc = "cli"
  /\ fnOut = [virtualCommands |-> << >>, registered |-> <<>>, lookup |-> NoLookup]

\* cli.command(path, module) with a valid path
CliCommand ==
  /\ fnPc = "cli" /\ Len(fnOut.registered) < MaxCommands
  /\ \E path \in ValidPaths :
       fnOut' = [virtualCommands |->
                   Command(fnOut.virtualCommands, path,
                           Module(Len(fnOut.registered) + 1)),
                 registered |-> Append(fnOut.registered, path),
                 lookup |-> NoLookup]
  /\ UNCHANGED <<progVars, fnIn, fnPc>>

\* The beforeResolve handler of Cli.run: this.virtualCommands.has(commandName)
CliLookup ==
  /\ fnPc = "cli" /\ fnOut.registered # <<>>
  /\ \E name \in SegmentNames :
       fnOut' = [fnOut EXCEPT !.lookup =
                   [name |-> name, found |-> name \in DOMAIN fnOut.virtualCommands]]
  /\ UNCHANGED <<progVars, fnIn, fnPc>>

NextCli == CliCommand \/ CliLookup

SpecCli == InitCli /\ [][NextCli]_vars

(***************************************************************************)
(* C40: after any Cli.command calls with valid paths, virtualCommands has  *)
(* an entry under every proper prefix of every registered path (the key    *)
(* 'a' for 'a/b'); the entry of a prefix that was never registered itself  *)
(* is the pass-through command; and a registered module is never replaced  *)
(* by the pass-through command.                                            *)
(***************************************************************************)
PathSegments(path) == SelectSeq(SplitString(path, Slash), LAMBDA seg : seg # <<>>)
ProperPrefixes(path) ==
  { JoinStrings(SubSeq(PathSegments(path), 1, k), << Slash >>) :
      k \in 1..(Len(PathSegments(path)) - 1) }
Registered == { fnOut.registered[i] : i \in DOMAIN fnOut.registered }

C40_ClaimedPrefixKeys ==
  \A path \in Registered : \A prefix \in ProperPrefixes(path) :
    /\ prefix \in DOMAIN fnOut.virtualCommands
    /\ prefix \notin Registered
         => fnOut.virtualCommands[prefix] = passThroughCommand
C40_ClaimedModuleKept ==
  \A path \in Registered : fnOut.virtualCommands[path].kind = "module"
C40_ClaimedVirtualCommands == C40_ClaimedPrefixKeys /\ C40_ClaimedModuleKept

\* A path holds the module of the last call that registered it.
C40_LastModule ==
  \A i \in DOMAIN fnOut.registered :
    (\A j \in DOMAIN fnOut.registered : j > i => fnOut.registered[j] # fnOut.registered[i])
      => fnOut.virtualCommands[fnOut.registered[i]] = Module(i)

\* The pass-through commands are under the prefixes written with a slash
\* in front.
C40_SlashedPrefixKeys ==
  \A path \in Registered : \A prefix \in ProperPrefixes(path) :
    << Slash >> \o prefix \in DOMAIN fnOut.virtualCommands


====
